---- MODULE Spec2Model ----
(***************************************************************************)
(* Algorthmia: the execution orchestrator (HTTP handler + one goroutine    *)
(* per accepted submission), the algorithm registry and the executors      *)
(* (ValidateParameters / Execute with step emission).                      *)
(*                                                                         *)
(* Go slices are 0-indexed; the model keeps the Go indices in its loop     *)
(* variables and reads/writes sequences through At / Put.                  *)
(***************************************************************************)
EXTENDS Integers, Sequences, FiniteSets, TLC

VARIABLES
    now,        \* the last value time.Now().UnixNano() returned to any caller
    execs,      \* the AlgorithmExecution contexts created so far, in creation order
    response,   \* the last HTTP response ExecuteAlgorithm wrote, numbered
    crashed,    \* TRUE once a goroutine has panicked (an unrecovered panic ends the process)
    call,       \* the arguments of a direct ValidateParameters / Execute call
    verr,       \* what ValidateParameters returned for call ("unset" before the call)
    subscribers,\* the hub's subscribers: lifecycle state, outbound queue, pending requests
    hub         \* the hub's coordination loop: operation in progress, broadcasts taken up

vars == <<now, execs, response, crashed, call, verr, subscribers, hub>>

-----------------------------------------------------------------------------
(* Bounds of the model *)

\* accepted submissions (execution contexts) explored together
MaxExec == 2
\* HTTP requests handled in one behaviour
MaxRequests == 2
\* longest []int handed to Execute as input by a direct caller
MaxInputLen == 3
\* the values of a direct caller's []int input are 0..MaxInputVal
MaxInputVal == 2
\* capacity of a subscriber's outbound queue
QueueCapacity == 2
\* unregister requests the connections issue in one behaviour
MaxUnregister == 2
\* the graphs traversed from every start to every target have 3..MaxGraphSize nodes
MaxGraphSize == 5
\* the arrays generated for every size have 3..MaxArraySize elements
MaxArraySize == 6

-----------------------------------------------------------------------------
(* Go values held in map[string]interface{} / interface{}                   *)

\* the nil interface: a key the map does not hold, or a JSON null
NilVal == [kind |-> "nil", i |-> 0, s |-> "", b |-> FALSE]
IntVal(n) == [kind |-> "int", i |-> n, s |-> "", b |-> FALSE]
Float64Val(n) == [kind |-> "float64", i |-> n, s |-> "", b |-> FALSE]
StringVal(str) == [kind |-> "string", i |-> 0, s |-> str, b |-> FALSE]
BoolVal(bb) == [kind |-> "bool", i |-> 0, s |-> "", b |-> bb]

\* parameters[name]: a missing key reads as the nil interface
Get(parameters, name) ==
    IF name \in DOMAIN parameters THEN parameters[name] ELSE NilVal

\* the comma-ok type assertions  v, ok := parameters[name].(T)
IsInt(parameters, name) == Get(parameters, name).kind = "int"
IsString(parameters, name) == Get(parameters, name).kind = "string"
IsBool(parameters, name) == Get(parameters, name).kind = "bool"

\* the input argument of Execute
NilInput == [kind |-> "nil", arr |-> <<>>]
IntsInput(a) == [kind |-> "ints", arr |-> a]
\* what encoding/json decodes a JSON array into: []interface{}, never []int
IfacesInput(a) == [kind |-> "ifaces", arr |-> a]

\* the error result nil
NilErr == ""

\* math.MaxInt, the largest int: 2^31 - 1 where int has 32 bits (2^63 - 1 where it has
\* 64: a sum that passes it wraps around to the smallest int in the same way)
MaxInt == 2147483647

\* n + 1 on an int
Inc(n) == IF n = MaxInt THEN -MaxInt - 1 ELSE n + 1

At(arr, i) == arr[i + 1]
Put(arr, i, v) == [arr EXCEPT ![i + 1] = v]
Swap(arr, i, j) == [arr EXCEPT ![i + 1] = arr[j + 1], ![j + 1] = arr[i + 1]]
InRange(arr, i) == i >= 0 /\ i < Len(arr)

-----------------------------------------------------------------------------
(* Algorithm metadata (types.Algorithm / types.Parameter)                   *)

Parameter(name, type, default) ==
    [Name |-> name, Type |-> type, Default |-> default,
     HasMin |-> FALSE, Min |-> 0, HasMax |-> FALSE, Max |-> 0]

BoundedParameter(name, default, min, max) ==
    [Name |-> name, Type |-> "int", Default |-> IntVal(default),
     HasMin |-> TRUE, Min |-> min, HasMax |-> TRUE, Max |-> max]

NewBubbleSort ==
    [ID |-> "bubble_sort", Category |-> "sorting",
     Parameters |-> << BoundedParameter("array_size", 10, 3, 100),
                       Parameter("show_comparisons", "bool", BoolVal(TRUE)) >>]

NewMergeSort ==
    [ID |-> "merge_sort", Category |-> "sorting",
     Parameters |-> << BoundedParameter("array_size", 10, 3, 100),
                       Parameter("show_divisions", "bool", BoolVal(TRUE)) >>]

NewQuickSort ==
    [ID |-> "quick_sort", Category |-> "sorting",
     Parameters |-> << BoundedParameter("array_size", 10, 3, 100),
                       Parameter("pivot_strategy", "string", StringVal("middle")) >>]

NewHeapSort ==
    [ID |-> "heap_sort", Category |-> "sorting",
     Parameters |-> << BoundedParameter("array_size", 10, 3, 100),
                       Parameter("show_heap_structure", "bool", BoolVal(TRUE)) >>]

NewCountingSort ==
    [ID |-> "counting_sort", Category |-> "sorting",
     Parameters |-> << BoundedParameter("array_size", 10, 3, 50),
                       BoundedParameter("max_value", 20, 5, 100) >>]

NewLinearSearch ==
    [ID |-> "linear_search", Category |-> "searching",
     Parameters |-> << BoundedParameter("array_size", 10, 3, 100),
                       Parameter("target", "int", IntVal(5)) >>]

NewBinarySearch ==
    [ID |-> "binary_search", Category |-> "searching",
     Parameters |-> << BoundedParameter("array_size", 10, 3, 100),
                       Parameter("target", "int", IntVal(5)) >>]

NewDFS ==
    [ID |-> "dfs", Category |-> "searching",
     Parameters |-> << BoundedParameter("graph_size", 6, 3, 20),
                       BoundedParameter("start_node", 0, 0, 19),
                       BoundedParameter("target_node", 5, 0, 19) >>]

NewBFS ==
    [ID |-> "bfs", Category |-> "searching",
     Parameters |-> << BoundedParameter("graph_size", 6, 3, 20),
                       BoundedParameter("start_node", 0, 0, 19),
                       BoundedParameter("target_node", 5, 0, 19) >>]

NewHashLookup ==
    [ID |-> "hash_lookup", Category |-> "searching",
     Parameters |-> << BoundedParameter("table_size", 10, 5, 50),
                       Parameter("key", "string", StringVal("key5")) >>]

-----------------------------------------------------------------------------
(* Registry                                                                 *)

\* the executors in the order registerAlgorithms registers them
registerAlgorithms ==
    << NewBubbleSort, NewMergeSort, NewQuickSort, NewHeapSort, NewCountingSort,
       NewLinearSearch, NewBinarySearch, NewDFS, NewBFS, NewHashLookup >>

\* RegisterAlgorithm: r.algorithms[metadata.ID] = algorithm (a later one replaces)
RECURSIVE RegisterAlgorithm(_, _, _)
RegisterAlgorithm(algorithms, list, k) ==
    IF k > Len(list) THEN algorithms
    ELSE RegisterAlgorithm(
            [id \in DOMAIN algorithms \cup {list[k].ID} |->
                IF id = list[k].ID THEN list[k] ELSE algorithms[id]],
            list, k + 1)

\* the map of a fresh registry: ID -> executor (named by its metadata)
NewRegistry == RegisterAlgorithm(<<>>, registerAlgorithms, 1)

\* GetAlgorithm: algorithm, exists := r.algorithms[id]
GetAlgorithm(id) ==
    IF id \in DOMAIN NewRegistry
    THEN [exists |-> TRUE, algorithm |-> NewRegistry[id]]
    ELSE [exists |-> FALSE, algorithm |-> [ID |-> "", Category |-> "", Parameters |-> <<>>]]

\* for _, algorithm := range r.algorithms: Go visits the keys of a map in an order
\* it chooses anew for each loop; the orders of the model are the registration order
\* started at any key, forwards and backwards
MapOrders ==
    LET ids == [k \in DOMAIN registerAlgorithms |-> registerAlgorithms[k].ID]
        Rotated(order, k) == [i \in DOMAIN order |-> order[((i - 1 + k) % Len(order)) + 1]]
        Reversed(order) == [i \in DOMAIN order |-> order[Len(order) + 1 - i]]
    IN { Rotated(ids, k) : k \in 0..(Len(ids) - 1) }
       \cup { Reversed(Rotated(ids, k)) : k \in 0..(Len(ids) - 1) }

\* GetAllAlgorithms: the metadata of every executor, in the order the map is ranged
GetAllAlgorithms(order) == [k \in DOMAIN order |-> NewRegistry[order[k]]]

\* a filter that keeps every descriptor
GetAlgorithmsByCategoryUnfiltered(order, category) == GetAllAlgorithms(order)

\* GetAlgorithmsByCategory: if metadata.Category == category { append }
GetAlgorithmsByCategory(order, category) ==
    SelectSeq(GetAllAlgorithms(order), LAMBDA metadata : metadata.Category = category)

-----------------------------------------------------------------------------
(* ValidateParameters, one per executor                                     *)

ArraySizeCheck(parameters, lo, hi, msg) ==
    IF IsInt(parameters, "array_size")
       /\ (Get(parameters, "array_size").i < lo \/ Get(parameters, "array_size").i > hi)
    THEN msg ELSE NilErr

BubbleSortValidateParameters(parameters) ==
    ArraySizeCheck(parameters, 3, 100, "array_size must be between 3 and 100")

MergeSortValidateParameters(parameters) ==
    ArraySizeCheck(parameters, 3, 100, "array_size must be between 3 and 100")

HeapSortValidateParameters(parameters) ==
    ArraySizeCheck(parameters, 3, 100, "array_size must be between 3 and 100")

LinearSearchValidateParameters(parameters) ==
    ArraySizeCheck(parameters, 3, 100, "array_size must be between 3 and 100")

BinarySearchValidateParameters(parameters) ==
    ArraySizeCheck(parameters, 3, 100, "array_size must be between 3 and 100")

QuickSortValidateParameters(parameters) ==
    IF ArraySizeCheck(parameters, 3, 100, "array_size must be between 3 and 100") # NilErr
    THEN "array_size must be between 3 and 100"
    ELSE IF IsString(parameters, "pivot_strategy")
            /\ Get(parameters, "pivot_strategy").s \notin {"first", "last", "middle"}
    THEN "pivot_strategy must be one of: first, last, middle"
    ELSE NilErr

CountingSortValidateParameters(parameters) ==
    IF ArraySizeCheck(parameters, 3, 50, "array_size must be between 3 and 50") # NilErr
    THEN "array_size must be between 3 and 50"
    ELSE IF IsInt(parameters, "max_value")
            /\ (Get(parameters, "max_value").i < 5 \/ Get(parameters, "max_value").i > 100)
    THEN "max_value must be between 5 and 100"
    ELSE NilErr

GraphSizeCheck(parameters) ==
    IF IsInt(parameters, "graph_size")
       /\ (Get(parameters, "graph_size").i < 3 \/ Get(parameters, "graph_size").i > 20)
    THEN "graph_size must be between 3 and 20" ELSE NilErr

DFSValidateParameters(parameters) == GraphSizeCheck(parameters)

BFSValidateParameters(parameters) == GraphSizeCheck(parameters)

HashLookupValidateParameters(parameters) ==
    IF IsInt(parameters, "table_size")
       /\ (Get(parameters, "table_size").i < 5 \/ Get(parameters, "table_size").i > 50)
    THEN "table_size must be between 5 and 50" ELSE NilErr

\* dynamic dispatch of AlgorithmExecutor.ValidateParameters on the executor
ValidateParameters(algorithm, parameters) ==
    CASE algorithm.ID = "bubble_sort" -> BubbleSortValidateParameters(parameters)
      [] algorithm.ID = "merge_sort" -> MergeSortValidateParameters(parameters)
      [] algorithm.ID = "quick_sort" -> QuickSortValidateParameters(parameters)
      [] algorithm.ID = "heap_sort" -> HeapSortValidateParameters(parameters)
      [] algorithm.ID = "counting_sort" -> CountingSortValidateParameters(parameters)
      [] algorithm.ID = "linear_search" -> LinearSearchValidateParameters(parameters)
      [] algorithm.ID = "binary_search" -> BinarySearchValidateParameters(parameters)
      [] algorithm.ID = "dfs" -> DFSValidateParameters(parameters)
      [] algorithm.ID = "bfs" -> BFSValidateParameters(parameters)
      [] algorithm.ID = "hash_lookup" -> HashLookupValidateParameters(parameters)

-----------------------------------------------------------------------------
(* Execute: steps, buffers and results                                      *)
(*                                                                         *)
(* A step's Data holds Go slices, which are references: refs names the     *)
(* buffers the step's Data points to, and mem is the content of every      *)
(* buffer of the run at the moment stepCallback is called with the step.   *)

ExecStep(num, action, refs, mem) ==
    [StepNumber |-> num, Action |-> action, refs |-> refs, mem |-> mem]

NilOutput ==
    [kind |-> "nil", buf |-> "", array |-> <<>>, found |-> FALSE, index |-> 0,
     value |-> NilVal, comparisons |-> 0, target |-> 0, path |-> <<>>,
     key |-> "", hash |-> 0, collisions |-> 0]

\* a []int result: buf names the buffer the returned slice points to
ArrayOutput(buf, a) == [NilOutput EXCEPT !.kind = "array", !.buf = buf, !.array = a]

\* the map a search returns: found, index, value, comparisons
SearchOutput(found, index, value, comparisons) ==
    [NilOutput EXCEPT !.kind = "search", !.found = found, !.index = index,
                      !.value = value, !.comparisons = comparisons]

\* the map a graph traversal returns: found, target, path, visited
GraphOutput(found, target, path) ==
    [NilOutput EXCEPT !.kind = "graph", !.buf = "visited", !.found = found,
                      !.target = target, !.path = path]

\* Execute returned (output, err)
Returned(steps, mem, output, err) ==
    [steps |-> steps, mem |-> mem, output |-> output, err |-> err, panicked |-> FALSE]

\* Execute did not return: a run-time panic (index out of range) unwound it
Panicked(steps, mem) ==
    [steps |-> steps, mem |-> mem, output |-> NilOutput, err |-> NilErr, panicked |-> TRUE]

InvalidInput ==
    Returned(<<>>, <<>>, NilOutput, "invalid input type, expected []int")

-----------------------------------------------------------------------------
(* generateRandomArray (sorting and searching hold the same text)           *)

RECURSIVE Shuffle(_, _)
Shuffle(arr, i) ==
    IF i > 0
    THEN LET j == i % (i + 1) IN Shuffle(Swap(arr, i, j), i - 1)
    ELSE arr

\* a generator whose shuffle leaves the array in descending order
generateRandomArrayReversed(size) == [k \in 1..size |-> size + 1 - k]

generateRandomArray(size) ==
    Shuffle([k \in 1..size |-> (k - 1) + 1], size - 1)

\* arraySize := 10; if size, ok := parameters["array_size"].(int); ok { arraySize = size }
IntParam(parameters, name, default) ==
    IF IsInt(parameters, name) THEN Get(parameters, name).i ELSE default

BoolParam(parameters, name, default) ==
    IF IsBool(parameters, name) THEN Get(parameters, name).b ELSE default

StringParam(parameters, name, default) ==
    IF IsString(parameters, name) THEN Get(parameters, name).s ELSE default

-----------------------------------------------------------------------------
(* BubbleSort.Execute                                                       *)

\* the memory of a bubble sort run: the array and the counter of comparisons
BubbleMem(st) ==
    [b \in {"arr", "comparisons"} |-> IF b = "arr" THEN st.arr ELSE st.comparisons]

BubbleEmit(st, action) ==
    [st EXCEPT !.steps = Append(@, ExecStep(st.stepNumber, action, {"arr"}, BubbleMem(st)))]

RECURSIVE BubbleSortInner(_, _, _, _, _)
BubbleSortInner(st, n, i, j, showComparisons) ==
    IF j < n - i - 1
    THEN LET s1 == [st EXCEPT !.comparisons = @ + 1]
             s2 == IF showComparisons
                   THEN [BubbleEmit(s1, "compare") EXCEPT !.stepNumber = @ + 1]
                   ELSE s1
             s3 == IF At(s2.arr, j) > At(s2.arr, j + 1)
                   THEN LET sw == [s2 EXCEPT !.arr = Swap(@, j, j + 1),
                                             !.swaps = @ + 1, !.swapped = TRUE]
                        IN [BubbleEmit(sw, "swap") EXCEPT !.stepNumber = @ + 1]
                   ELSE s2
         IN BubbleSortInner(s3, n, i, j + 1, showComparisons)
    ELSE st

\* a bubble sort that makes one pass over the array and stops
BubbleSortOuterOnePass(st, n, i, showComparisons) ==
    IF i < n - 1
    THEN LET s0 == [BubbleEmit([st EXCEPT !.swapped = FALSE], "outer_loop")
                       EXCEPT !.stepNumber = @ + 1]
             s1 == BubbleSortInner(s0, n, i, 0, showComparisons)
         IN IF ~s1.swapped
            THEN [BubbleEmit(s1, "early_termination") EXCEPT !.stepNumber = @ + 1]
            ELSE s1
    ELSE st

RECURSIVE BubbleSortOuter(_, _, _, _)
BubbleSortOuter(st, n, i, showComparisons) ==
    IF i < n - 1
    THEN LET s0 == [BubbleEmit([st EXCEPT !.swapped = FALSE], "outer_loop")
                       EXCEPT !.stepNumber = @ + 1]
             s1 == BubbleSortInner(s0, n, i, 0, showComparisons)
         IN IF ~s1.swapped
            THEN [BubbleEmit(s1, "early_termination") EXCEPT !.stepNumber = @ + 1]
            ELSE BubbleSortOuter(s1, n, i + 1, showComparisons)
    ELSE st

BubbleSortRun(arr, showComparisons) ==
    LET s0 == [arr |-> arr, steps |-> <<>>, comparisons |-> 0, swaps |-> 0,
               stepNumber |-> 0, swapped |-> FALSE]
        s1 == [BubbleEmit(s0, "initialize") EXCEPT !.stepNumber = 1]
        s2 == BubbleSortOuter(s1, Len(arr), 0, showComparisons)
        s3 == BubbleEmit(s2, "complete")
    IN Returned(s3.steps, BubbleMem(s3), ArrayOutput("arr", s3.arr), NilErr)

BubbleSortExecute(input, parameters) ==
    IF input.kind # "nil"
    THEN IF input.kind = "ints"
         THEN BubbleSortRun(input.arr, BoolParam(parameters, "show_comparisons", TRUE))
         ELSE InvalidInput
    ELSE BubbleSortRun(generateRandomArray(IntParam(parameters, "array_size", 10)),
                       BoolParam(parameters, "show_comparisons", TRUE))

-----------------------------------------------------------------------------
(* QuickSort.Execute                                                        *)

\* a sort whose sortedArr is the caller's array itself (sortedArr := arr)
CopyMemAliased(st) == [b \in {"arr", "sortedArr"} |-> st.arr]

\* arr is the caller's (or generated) array, sortedArr the copy that is sorted
CopyMem(st) == [b \in {"arr", "sortedArr"} |-> IF b = "arr" THEN st.orig ELSE st.arr]

CopyEmit(st, num, action) ==
    [st EXCEPT !.steps = Append(@, ExecStep(num, action, {"sortedArr"}, CopyMem(st)))]

\* the initial state of a sort that works on a copy, after its "initialize" step
CopyInit(arr) ==
    [orig |-> arr, arr |-> arr, i |-> 0, stepNumber |-> 0, ret |-> 0,
     steps |-> <<ExecStep(0, "initialize", {"arr"}, [b \in {"arr"} |-> arr])>>]

RECURSIVE PartitionLoop(_, _, _, _)
\* st.i is the partition's i, st.stepNumber its local stepNumber
PartitionLoop(st, pivot, j, high) ==
    IF j < high
    THEN LET s1 == [CopyEmit(st, st.stepNumber, "compare_pivot") EXCEPT !.stepNumber = @ + 1]
             s2 == IF At(s1.arr, j) <= pivot
                   THEN LET sw == [s1 EXCEPT !.i = @ + 1, !.arr = Swap(@, s1.i + 1, j)]
                        IN [CopyEmit(sw, sw.stepNumber, "swap_partition")
                               EXCEPT !.stepNumber = @ + 1]
                   ELSE s1
         IN PartitionLoop(s2, pivot, j + 1, high)
    ELSE st

\* returns the state with .i + 1 the pivot's final index
partition(st, low, high, pivotStrategy, stepNumber) ==
    LET pivotIndex == CASE pivotStrategy = "first" -> low
                        [] pivotStrategy = "last" -> high
                        [] pivotStrategy = "middle" -> low + (high - low) \div 2
                        [] OTHER -> low + (high - low) \div 2
        pivot == At(st.arr, pivotIndex)
        s1 == CopyEmit(st, stepNumber, "select_pivot")
        s2 == [s1 EXCEPT !.arr = Swap(@, pivotIndex, high), !.i = low - 1,
                         !.stepNumber = stepNumber + 1]
        s3 == PartitionLoop(s2, pivot, low, high)
        s4 == [s3 EXCEPT !.arr = Swap(@, s3.i + 1, high)]
    IN CopyEmit(s4, s4.stepNumber, "pivot_positioned")

RECURSIVE quickSort(_, _, _, _, _)
\* returns the state with .ret the stepNumber quickSort returns
quickSort(st, low, high, pivotStrategy, stepNumber) ==
    IF low < high
    THEN LET p == partition(st, low, high, pivotStrategy, stepNumber)
             pivotIndex == p.i + 1
             l == quickSort(p, low, pivotIndex - 1, pivotStrategy, stepNumber + 1)
         IN quickSort(l, pivotIndex + 1, high, pivotStrategy, l.ret)
    ELSE [st EXCEPT !.ret = stepNumber]

QuickSortRun(arr, pivotStrategy) ==
    LET s2 == quickSort(CopyInit(arr), 0, Len(arr) - 1, pivotStrategy, 1)
        s3 == CopyEmit(s2, -1, "complete")
    IN Returned(s3.steps, CopyMem(s3), ArrayOutput("sortedArr", s3.arr), NilErr)

QuickSortExecute(input, parameters) ==
    IF input.kind # "nil"
    THEN IF input.kind = "ints"
         THEN QuickSortRun(input.arr, StringParam(parameters, "pivot_strategy", "middle"))
         ELSE InvalidInput
    ELSE QuickSortRun(generateRandomArray(IntParam(parameters, "array_size", 10)),
                      StringParam(parameters, "pivot_strategy", "middle"))

-----------------------------------------------------------------------------
(* generateGraph, DFS.Execute, BFS.Execute                                  *)

\* a graph whose edges lead to higher nodes only
generateGraphForward(size) ==
    [k \in 1..size |->
        LET i == k - 1 IN
        (IF i < size - 1 THEN <<i + 1>> ELSE <<>>)
        \o (IF i + 2 < size THEN <<i + 2>> ELSE <<>>)]

\* graph[i]: i-1 (if any), i+1 (if any), i+2 (if any), in this order
generateGraph(size) ==
    [k \in 1..size |->
        LET i == k - 1 IN
        (IF i > 0 THEN <<i - 1>> ELSE <<>>)
        \o (IF i < size - 1 THEN <<i + 1>> ELSE <<>>)
        \o (IF i + 2 < size THEN <<i + 2>> ELSE <<>>)]

GraphMem(st) == [b \in {"visited"} |-> st.visited]

GraphEmit(st, action) ==
    [st EXCEPT !.steps = Append(@, ExecStep(st.stepNumber, action, {"visited"}, GraphMem(st)))]

\* for _, neighbor := range graph[current] { if !visited[neighbor] { append } }
RECURSIVE AddNeighbors(_, _, _, _)
AddNeighbors(pending, neighbors, visited, k) ==
    IF k > Len(neighbors) THEN pending
    ELSE AddNeighbors(IF ~At(visited, neighbors[k]) THEN Append(pending, neighbors[k])
                      ELSE pending,
                      neighbors, visited, k + 1)

RECURSIVE DFSLoop(_, _, _)
DFSLoop(st, graph, targetNode) ==
    IF Len(st.stack) > 0
    THEN LET current == st.stack[Len(st.stack)]
             popped == [st EXCEPT !.stack = SubSeq(@, 1, Len(@) - 1)]
         IN IF ~InRange(popped.visited, current)
            THEN Panicked(popped.steps, GraphMem(popped))
            ELSE IF At(popped.visited, current)
            THEN DFSLoop(popped, graph, targetNode)
            ELSE LET s1 == [popped EXCEPT !.visited = Put(@, current, TRUE),
                                          !.path = Append(@, current)]
                     s2 == [GraphEmit(s1, "visit_node") EXCEPT !.stepNumber = @ + 1]
                 IN IF current = targetNode
                    THEN LET s3 == GraphEmit(s2, "found")
                         IN Returned(s3.steps, GraphMem(s3),
                                     GraphOutput(TRUE, targetNode, s3.path), NilErr)
                    ELSE LET s3 == [s2 EXCEPT !.stack =
                                       AddNeighbors(@, At(graph, current), s2.visited, 1)]
                             s4 == [GraphEmit(s3, "add_neighbors") EXCEPT !.stepNumber = @ + 1]
                         IN DFSLoop(s4, graph, targetNode)
    ELSE LET s1 == GraphEmit(st, "not_found")
         IN Returned(s1.steps, GraphMem(s1), GraphOutput(FALSE, targetNode, s1.path), NilErr)

GraphInit(graphSize, startNode) ==
    LET s0 == [visited |-> [k \in 1..graphSize |-> FALSE], stack |-> <<startNode>>,
               path |-> <<>>, steps |-> <<>>, stepNumber |-> 0]
    IN [s0 EXCEPT !.steps = Append(@, ExecStep(0, "initialize", {}, <<>>)),
                  !.stepNumber = 1]

DFSExecute(input, parameters) ==
    LET graphSize == IntParam(parameters, "graph_size", 6)
        startNode == IntParam(parameters, "start_node", 0)
        targetNode == IntParam(parameters, "target_node", 5)
    IN DFSLoop(GraphInit(graphSize, startNode), generateGraph(graphSize), targetNode)

RECURSIVE BFSLoop(_, _, _)
\* st.stack holds the queue: the front is its first element
BFSLoop(st, graph, targetNode) ==
    IF Len(st.stack) > 0
    THEN LET current == st.stack[1]
             popped == [st EXCEPT !.stack = SubSeq(@, 2, Len(@))]
         IN IF ~InRange(popped.visited, current)
            THEN Panicked(popped.steps, GraphMem(popped))
            ELSE IF At(popped.visited, current)
            THEN BFSLoop(popped, graph, targetNode)
            ELSE LET s1 == [popped EXCEPT !.visited = Put(@, current, TRUE),
                                          !.path = Append(@, current)]
                     s2 == [GraphEmit(s1, "visit_node") EXCEPT !.stepNumber = @ + 1]
                 IN IF current = targetNode
                    THEN LET s3 == GraphEmit(s2, "found")
                         IN Returned(s3.steps, GraphMem(s3),
                                     GraphOutput(TRUE, targetNode, s3.path), NilErr)
                    ELSE LET s3 == [s2 EXCEPT !.stack =
                                       AddNeighbors(@, At(graph, current), s2.visited, 1)]
                             s4 == [GraphEmit(s3, "add_neighbors") EXCEPT !.stepNumber = @ + 1]
                         IN BFSLoop(s4, graph, targetNode)
    ELSE LET s1 == GraphEmit(st, "not_found")
         IN Returned(s1.steps, GraphMem(s1), GraphOutput(FALSE, targetNode, s1.path), NilErr)

BFSExecute(input, parameters) ==
    LET graphSize == IntParam(parameters, "graph_size", 6)
        startNode == IntParam(parameters, "start_node", 0)
        targetNode == IntParam(parameters, "target_node", 5)
    IN BFSLoop(GraphInit(graphSize, startNode), generateGraph(graphSize), targetNode)

-----------------------------------------------------------------------------
(* LinearSearch.Execute, BinarySearch.Execute                               *)

SearchMem(arr) == [b \in {"arr"} |-> arr]

RECURSIVE LinearSearchLoop(_, _, _, _)
LinearSearchLoop(steps, arr, target, i) ==
    IF i < Len(arr)
    THEN LET s1 == Append(steps, ExecStep(i + 1, "check_element", {"arr"}, SearchMem(arr)))
         IN IF At(arr, i) = target
            THEN Returned(Append(s1, ExecStep(i + 2, "found", {"arr"}, SearchMem(arr))),
                          SearchMem(arr),
                          SearchOutput(TRUE, i, IntVal(At(arr, i)), i + 1), NilErr)
            ELSE LinearSearchLoop(s1, arr, target, i + 1)
    ELSE Returned(Append(steps, ExecStep(Len(arr) + 1, "not_found", {"arr"}, SearchMem(arr))),
                  SearchMem(arr), SearchOutput(FALSE, -1, NilVal, Len(arr)), NilErr)

LinearSearchRun(arr, target) ==
    LinearSearchLoop(<<ExecStep(0, "initialize", {"arr"}, SearchMem(arr))>>, arr, target, 0)

LinearSearchExecute(input, parameters) ==
    IF input.kind # "nil"
    THEN IF input.kind = "ints"
         THEN LinearSearchRun(input.arr, IntParam(parameters, "target", 5))
         ELSE InvalidInput
    ELSE LinearSearchRun(generateRandomArray(IntParam(parameters, "array_size", 10)),
                         IntParam(parameters, "target", 5))

\* sort.Ints(arr): sorts the slice in place, ascending (insertion of arr[k] into the
\* sorted prefix; the result of a sort is the same whatever the method)
RECURSIVE InsertSorted(_, _)
InsertSorted(sorted, v) ==
    IF sorted = <<>> THEN <<v>>
    ELSE IF v < sorted[Len(sorted)]
         THEN Append(InsertSorted(SubSeq(sorted, 1, Len(sorted) - 1), v), sorted[Len(sorted)])
         ELSE Append(sorted, v)

RECURSIVE SortInts(_)
SortInts(arr) ==
    IF arr = <<>> THEN <<>>
    ELSE InsertSorted(SortInts(SubSeq(arr, 1, Len(arr) - 1)), arr[Len(arr)])

RECURSIVE BinarySearchLoop(_, _, _, _, _, _)
BinarySearchLoop(steps, arr, target, left, right, count) ==
    IF left <= right
    THEN LET mid == left + (right - left) \div 2
             comparisons == count + 1
             s1 == Append(steps, ExecStep(comparisons, "check_middle", {"arr"}, SearchMem(arr)))
         IN IF At(arr, mid) = target
            THEN Returned(Append(s1, ExecStep(comparisons + 1, "found", {"arr"}, SearchMem(arr))),
                          SearchMem(arr),
                          SearchOutput(TRUE, mid, IntVal(At(arr, mid)), comparisons), NilErr)
            ELSE IF At(arr, mid) < target
            THEN BinarySearchLoop(
                    Append(s1, ExecStep(comparisons + 1, "search_right", {"arr"}, SearchMem(arr))),
                    arr, target, mid + 1, right, comparisons)
            ELSE BinarySearchLoop(
                    Append(s1, ExecStep(comparisons + 1, "search_left", {"arr"}, SearchMem(arr))),
                    arr, target, left, mid - 1, comparisons)
    ELSE Returned(Append(steps, ExecStep(count + 1, "not_found", {"arr"}, SearchMem(arr))),
                  SearchMem(arr), SearchOutput(FALSE, -1, NilVal, count), NilErr)

\* a binary search that leaves the array in the order it came
BinarySearchRunUnsorted(arr, target) ==
    BinarySearchLoop(<<ExecStep(0, "initialize", {"arr"}, SearchMem(arr))>>,
                     arr, target, 0, Len(arr) - 1, 0)

BinarySearchRun(arr, target) ==
    LET sorted == SortInts(arr)
    IN BinarySearchLoop(<<ExecStep(0, "initialize", {"arr"}, SearchMem(sorted))>>,
                        sorted, target, 0, Len(sorted) - 1, 0)

BinarySearchExecute(input, parameters) ==
    IF input.kind # "nil"
    THEN IF input.kind = "ints"
         THEN BinarySearchRun(input.arr, IntParam(parameters, "target", 5))
         ELSE InvalidInput
    ELSE BinarySearchRun(generateRandomArray(IntParam(parameters, "array_size", 10)),
                         IntParam(parameters, "target", 5))

-----------------------------------------------------------------------------
(* MergeSort.Execute                                                        *)

\* for i < len(src) { arr[k] = src[i]; i++; k++ }
RECURSIVE CopyRemaining(_, _, _, _)
CopyRemaining(arr, src, i, k) ==
    IF i < Len(src) THEN CopyRemaining(Put(arr, k, At(src, i)), src, i + 1, k + 1) ELSE arr

RECURSIVE MergeLoop(_, _, _, _, _, _, _)
MergeLoop(st, leftArr, rightArr, i, j, k, stepNumber) ==
    IF i < Len(leftArr) /\ j < Len(rightArr)
    THEN LET s1 == CopyEmit(st, stepNumber, "compare_merge")
         IN IF At(leftArr, i) <= At(rightArr, j)
            THEN MergeLoop([s1 EXCEPT !.arr = Put(@, k, At(leftArr, i))],
                           leftArr, rightArr, i + 1, j, k + 1, stepNumber + 1)
            ELSE MergeLoop([s1 EXCEPT !.arr = Put(@, k, At(rightArr, j))],
                           leftArr, rightArr, i, j + 1, k + 1, stepNumber + 1)
    ELSE LET a1 == CopyRemaining(st.arr, leftArr, i, k)
             a2 == CopyRemaining(a1, rightArr, j, k + (Len(leftArr) - i))
         IN [st EXCEPT !.arr = a2]

merge(st, left, mid, right, stepNumber) ==
    LET leftArr == SubSeq(st.arr, left + 1, mid + 1)
        rightArr == SubSeq(st.arr, mid + 2, right + 1)
    IN MergeLoop(st, leftArr, rightArr, 0, 0, left, stepNumber)

RECURSIVE mergeSort(_, _, _, _, _)
\* returns the state with .ret the stepNumber mergeSort returns
mergeSort(st, left, right, showDivisions, stepNumber) ==
    IF left < right
    THEN LET mid == left + (right - left) \div 2
             s1 == IF showDivisions THEN CopyEmit(st, stepNumber, "divide") ELSE st
             n1 == IF showDivisions THEN stepNumber + 1 ELSE stepNumber
             l == mergeSort(s1, left, mid, showDivisions, n1)
             r == mergeSort(l, mid + 1, right, showDivisions, l.ret)
             s2 == CopyEmit(r, r.ret, "merge")
             m == merge(s2, left, mid, right, r.ret + 1)
         IN [m EXCEPT !.ret = r.ret + 2]
    ELSE [st EXCEPT !.ret = stepNumber]

MergeSortRun(arr, showDivisions) ==
    LET s1 == mergeSort(CopyInit(arr), 0, Len(arr) - 1, showDivisions, 1)
        s2 == CopyEmit(s1, -1, "complete")
    IN Returned(s2.steps, CopyMem(s2), ArrayOutput("sortedArr", s2.arr), NilErr)

MergeSortExecute(input, parameters) ==
    IF input.kind # "nil"
    THEN IF input.kind = "ints"
         THEN MergeSortRun(input.arr, BoolParam(parameters, "show_divisions", TRUE))
         ELSE InvalidInput
    ELSE MergeSortRun(generateRandomArray(IntParam(parameters, "array_size", 10)),
                      BoolParam(parameters, "show_divisions", TRUE))

-----------------------------------------------------------------------------
(* HeapSort.Execute                                                         *)

RECURSIVE heapify(_, _, _, _, _)
heapify(st, n, i, showHeapStructure, stepNumber) ==
    LET left == 2 * i + 1
        right == 2 * i + 2
        s1 == IF showHeapStructure THEN CopyEmit(st, stepNumber, "heapify_check") ELSE st
        l1 == IF left < n /\ At(s1.arr, left) > At(s1.arr, i) THEN left ELSE i
        largest == IF right < n /\ At(s1.arr, right) > At(s1.arr, l1) THEN right ELSE l1
    IN IF largest # i
       THEN LET s2 == [s1 EXCEPT !.arr = Swap(@, i, largest)]
                s3 == IF showHeapStructure THEN CopyEmit(s2, stepNumber, "heapify_swap") ELSE s2
            IN heapify(s3, n, largest, showHeapStructure, stepNumber)
       ELSE s1

\* for i := n/2 - 1; i >= 0; i-- { heapify(sortedArr, n, i, ..., 2) }
RECURSIVE BuildHeap(_, _, _, _)
BuildHeap(st, n, i, showHeapStructure) ==
    IF i >= 0
    THEN BuildHeap(heapify(st, n, i, showHeapStructure, 2), n, i - 1, showHeapStructure)
    ELSE st

\* for i := n - 1; i > 0; i-- { swap root and i; emit; heapify(sortedArr, i, 0, ..., -1) }
RECURSIVE ExtractLoop(_, _, _)
ExtractLoop(st, i, showHeapStructure) ==
    IF i > 0
    THEN LET s1 == [st EXCEPT !.arr = Swap(@, 0, i)]
             s2 == CopyEmit(s1, -1, "extract_max")
         IN ExtractLoop(heapify(s2, i, 0, showHeapStructure, -1), i - 1, showHeapStructure)
    ELSE st

HeapSortRun(arr, showHeapStructure) ==
    LET n == Len(arr)
        s1 == CopyEmit(CopyInit(arr), 1, "build_heap")
        s2 == BuildHeap(s1, n, (n \div 2) - 1, showHeapStructure)
        s3 == ExtractLoop(s2, n - 1, showHeapStructure)
        s4 == CopyEmit(s3, -1, "complete")
    IN Returned(s4.steps, CopyMem(s4), ArrayOutput("sortedArr", s4.arr), NilErr)

HeapSortExecute(input, parameters) ==
    IF input.kind # "nil"
    THEN IF input.kind = "ints"
         THEN HeapSortRun(input.arr, BoolParam(parameters, "show_heap_structure", TRUE))
         ELSE InvalidInput
    ELSE HeapSortRun(generateRandomArray(IntParam(parameters, "array_size", 10)),
                     BoolParam(parameters, "show_heap_structure", TRUE))

-----------------------------------------------------------------------------
(* CountingSort.Execute                                                     *)

generateRandomArrayWithMax(size, maxValue) ==
    Shuffle([k \in 1..size |-> ((k - 1) % maxValue) + 1], size - 1)

CountingMem(st) ==
    [b \in {"arr", "count", "output"} |->
        CASE b = "arr" -> st.arr [] b = "count" -> st.count [] b = "output" -> st.output]

CountingEmit(st, num, action, refs) ==
    [st EXCEPT !.steps = Append(@, ExecStep(num, action, refs, CountingMem(st)))]

\* max := arr[0]; for _, v := range arr { if v > max { max = v } }
RECURSIVE MaxOf(_, _, _)
MaxOf(arr, k, max) ==
    IF k > Len(arr) THEN max
    ELSE MaxOf(arr, k + 1, IF arr[k] > max THEN arr[k] ELSE max)

\* for i := 0; i < len(arr); i++ { count[arr[i]]++; emit }
RECURSIVE CountLoop(_, _)
CountLoop(st, i) ==
    IF i < Len(st.arr)
    THEN IF ~InRange(st.count, At(st.arr, i))
         THEN [st EXCEPT !.panicked = TRUE]
         ELSE LET s1 == [st EXCEPT !.count = Put(@, At(st.arr, i), At(@, At(st.arr, i)) + 1)]
              IN CountLoop(CountingEmit(s1, 3 + i, "count_element", {"arr", "count"}), i + 1)
    ELSE st

\* for i := 1; i <= max; i++ { count[i] += count[i-1]; emit }
RECURSIVE ModifyLoop(_, _, _)
ModifyLoop(st, i, max) ==
    IF i <= max
    THEN LET s1 == [st EXCEPT !.count = Put(@, i, At(@, i) + At(@, i - 1))]
         IN ModifyLoop(CountingEmit(s1, 4 + Len(st.arr) + i, "modify_count_element",
                                    {"arr", "count"}),
                       i + 1, max)
    ELSE st

\* for i := len(arr) - 1; i >= 0; i-- { output[count[arr[i]]-1] = arr[i]; count[arr[i]]--; emit }
RECURSIVE PlaceLoop(_, _, _)
PlaceLoop(st, i, max) ==
    IF i >= 0
    THEN LET v == At(st.arr, i)
             pos == At(st.count, v) - 1
         IN IF ~InRange(st.output, pos)
            THEN [st EXCEPT !.panicked = TRUE]
            ELSE LET s1 == [st EXCEPT !.output = Put(@, pos, v),
                                      !.count = Put(@, v, At(@, v) - 1)]
                 IN PlaceLoop(CountingEmit(s1, 5 + Len(st.arr) + max + (Len(st.arr) - i),
                                           "place_element", {"arr", "count", "output"}),
                              i - 1, max)
    ELSE st

CountingSortRun(arr) ==
    LET s0 == [arr |-> arr, count |-> <<>>, output |-> <<>>, steps |-> <<>>,
               panicked |-> FALSE]
        s1 == CountingEmit(s0, 0, "initialize", {"arr"})
    IN IF arr = <<>>
       THEN Panicked(s1.steps, CountingMem(s1))       \* max := arr[0]
       ELSE
       LET max == MaxOf(arr, 1, arr[1])
           s2 == CountingEmit(s1, 1, "find_max", {"arr"})
       IN IF Inc(max) < 0
          THEN Panicked(s2.steps, CountingMem(s2))    \* make([]int, max+1)
          ELSE
          LET s3 == [s2 EXCEPT !.count = [k \in 1..(max + 1) |-> 0],
                               !.output = [k \in 1..Len(arr) |-> 0]]
              s4 == CountingEmit(s3, 2, "count_occurrences", {"arr", "count"})
              s5 == CountLoop(s4, 0)
          IN IF s5.panicked THEN Panicked(s5.steps, CountingMem(s5))
             ELSE
             LET s6 == CountingEmit(s5, 3 + Len(arr), "modify_count", {"arr", "count"})
                 s7 == ModifyLoop(s6, 1, max)
                 s8 == CountingEmit(s7, 4 + Len(arr) + max + 1, "build_output",
                                    {"arr", "count", "output"})
                 s9 == PlaceLoop(s8, Len(arr) - 1, max)
             IN IF s9.panicked THEN Panicked(s9.steps, CountingMem(s9))
                ELSE LET s10 == CountingEmit(s9, -1, "complete", {"output"})
                     IN Returned(s10.steps, CountingMem(s10),
                                 ArrayOutput("output", s10.output), NilErr)

CountingSortExecute(input, parameters) ==
    IF input.kind # "nil"
    THEN IF input.kind = "ints" THEN CountingSortRun(input.arr) ELSE InvalidInput
    ELSE CountingSortRun(generateRandomArrayWithMax(IntParam(parameters, "array_size", 10),
                                                    IntParam(parameters, "max_value", 20)))

-----------------------------------------------------------------------------
(* HashLookup.Execute                                                       *)

\* the code points of the decimal digits of n (1..99)
Digits(n) == IF n < 10 THEN <<48 + n>> ELSE <<48 + (n \div 10), 48 + (n % 10)>>

\* the keys of the model, each with the runes `range key` yields:
\* "key1".."key11", "yek1", which has the runes of "key1" in another order, and
\* "sideways"
KeyRunes ==
    [k \in {"key1", "key2", "key3", "key4", "key5", "key6", "key7", "key8", "key9",
            "key10", "key11", "yek1", "sideways"} |->
        CASE k = "key1" -> <<107, 101, 121>> \o Digits(1)
          [] k = "key2" -> <<107, 101, 121>> \o Digits(2)
          [] k = "key3" -> <<107, 101, 121>> \o Digits(3)
          [] k = "key4" -> <<107, 101, 121>> \o Digits(4)
          [] k = "key5" -> <<107, 101, 121>> \o Digits(5)
          [] k = "key6" -> <<107, 101, 121>> \o Digits(6)
          [] k = "key7" -> <<107, 101, 121>> \o Digits(7)
          [] k = "key8" -> <<107, 101, 121>> \o Digits(8)
          [] k = "key9" -> <<107, 101, 121>> \o Digits(9)
          [] k = "key10" -> <<107, 101, 121>> \o Digits(10)
          [] k = "key11" -> <<107, 101, 121>> \o Digits(11)
          [] k = "yek1" -> <<121, 101, 107>> \o Digits(1)
          [] k = "sideways" -> <<115, 105, 100, 101, 119, 97, 121, 115>>]

\* for _, char := range key { hash = (hash + int(char)) % tableSize }
RECURSIVE HashRunes(_, _, _, _)
HashRunes(runes, k, hash, tableSize) ==
    IF k > Len(runes) THEN hash
    ELSE HashRunes(runes, k + 1, (hash + runes[k]) % tableSize, tableSize)

\* a lookup hash that reads the first character only
hashFunctionFirstRune(key, tableSize) == KeyRunes[key][1] % tableSize

hashFunction(key, tableSize) == HashRunes(KeyRunes[key], 1, 0, tableSize)

\* keys[i] / values[i] of generateHashTable, i from 0
SampleKeys ==
    <<"key1", "key2", "key3", "key4", "key5", "key6", "key7", "key8", "key9", "key10">>
SampleValues ==
    <<"value1", "value2", "value3", "value4", "value5", "value6", "value7", "value8",
      "value9", "value10">>

\* hashTable[hash] = append(hashTable[hash], entry); a bucket the map does not hold
\* reads as the empty sequence
RECURSIVE FillHashTable(_, _, _)
FillHashTable(hashTable, i, size) ==
    IF i >= Len(SampleKeys) \/ i >= size THEN hashTable
    ELSE LET hash == HashRunes(KeyRunes[At(SampleKeys, i)], 1, 0, size)
             entry == [Key |-> At(SampleKeys, i), Value |-> At(SampleValues, i)]
         IN FillHashTable([hashTable EXCEPT ![hash] = Append(@, entry)], i + 1, size)

generateHashTable(size) == FillHashTable([h \in 0..(size - 1) |-> <<>>], 0, size)

HashOutput(found, key, value, hash, collisions) ==
    [NilOutput EXCEPT !.kind = "hash", !.found = found, !.key = key, !.value = value,
                      !.hash = hash, !.collisions = collisions]

RECURSIVE CheckEntries(_, _, _, _, _)
\* for i, entry := range bucket { emit check_entry; if entry.Key == key { found } }
CheckEntries(steps, bucket, i, key, hash) ==
    IF i < Len(bucket)
    THEN LET s1 == Append(steps, ExecStep(3 + i, "check_entry", {}, <<>>))
         IN IF At(bucket, i).Key = key
            THEN Returned(Append(s1, ExecStep(3 + i + 1, "found", {}, <<>>)), <<>>,
                          HashOutput(TRUE, key, StringVal(At(bucket, i).Value), hash,
                                     Len(bucket) - 1),
                          NilErr)
            ELSE CheckEntries(s1, bucket, i + 1, key, hash)
    ELSE Returned(Append(steps, ExecStep(-1, "not_found", {}, <<>>)), <<>>,
                  HashOutput(FALSE, key, NilVal, hash, 0), NilErr)

HashLookupExecute(input, parameters) ==
    LET tableSize == IntParam(parameters, "table_size", 10)
        key == StringParam(parameters, "key", "key5")
        hashTable == generateHashTable(tableSize)
        hash == hashFunction(key, tableSize)
        s1 == <<ExecStep(0, "initialize", {}, <<>>), ExecStep(1, "calculate_hash", {}, <<>>)>>
    IN IF hashTable[hash] # <<>>
       THEN CheckEntries(Append(s1, ExecStep(2, "check_bucket", {}, <<>>)),
                         hashTable[hash], 0, key, hash)
       ELSE Returned(Append(s1, ExecStep(-1, "not_found", {}, <<>>)), <<>>,
                     HashOutput(FALSE, key, NilVal, hash, 0), NilErr)

\* dynamic dispatch of AlgorithmExecutor.Execute on the executor
Execute(algorithm, input, parameters) ==
    CASE algorithm.ID = "bubble_sort" -> BubbleSortExecute(input, parameters)
      [] algorithm.ID = "merge_sort" -> MergeSortExecute(input, parameters)
      [] algorithm.ID = "quick_sort" -> QuickSortExecute(input, parameters)
      [] algorithm.ID = "heap_sort" -> HeapSortExecute(input, parameters)
      [] algorithm.ID = "counting_sort" -> CountingSortExecute(input, parameters)
      [] algorithm.ID = "linear_search" -> LinearSearchExecute(input, parameters)
      [] algorithm.ID = "binary_search" -> BinarySearchExecute(input, parameters)
      [] algorithm.ID = "dfs" -> DFSExecute(input, parameters)
      [] algorithm.ID = "bfs" -> BFSExecute(input, parameters)
      [] algorithm.ID = "hash_lookup" -> HashLookupExecute(input, parameters)

-----------------------------------------------------------------------------
(* HTTP requests: POST /algorithms/{id}/execute                             *)

\* JSON values of a request body
JNull == [j |-> "null", n |-> 0, s |-> "", b |-> FALSE]
JNumber(n) == [j |-> "number", n |-> n, s |-> "", b |-> FALSE]
JString(str) == [j |-> "string", n |-> 0, s |-> str, b |-> FALSE]
JBool(bb) == [j |-> "bool", n |-> 0, s |-> "", b |-> bb]

\* encoding/json into interface{}: a number becomes float64 (never int), a string
\* string, a boolean bool, null the nil interface
DecodeValue(v) ==
    CASE v.j = "number" -> Float64Val(v.n)
      [] v.j = "string" -> StringVal(v.s)
      [] v.j = "bool" -> BoolVal(v.b)
      [] v.j = "null" -> NilVal

\* encoding/json into the Input interface{}: no "input" member (or null) leaves it
\* nil, an array becomes []interface{}
DecodeInput(in) ==
    IF in.present THEN IfacesInput(in.items) ELSE NilInput

\* json.NewDecoder(r.Body).Decode(&request)
Decode(body) ==
    IF body.wellFormed
    THEN [err |-> NilErr,
          Parameters |-> [name \in DOMAIN body.parameters |-> DecodeValue(body.parameters[name])],
          Input |-> DecodeInput(body.input)]
    ELSE [err |-> "invalid character", Parameters |-> <<>>, Input |-> NilInput]

NoInputJSON == [present |-> FALSE, items |-> <<>>]
ArrayJSON(items) == [present |-> TRUE, items |-> items]

\* the request bodies of the model
MalformedBody == [wellFormed |-> FALSE, parameters |-> <<>>, input |-> NoInputJSON]
EmptyBody == [wellFormed |-> TRUE, parameters |-> <<>>, input |-> NoInputJSON]
\* numbers for the int parameters, show_comparisons off, a strategy quick sort does
\* not know, a key the table does not hold
ParametersBody ==
    [wellFormed |-> TRUE,
     parameters |-> [array_size |-> JNumber(5), show_comparisons |-> JBool(FALSE),
                     pivot_strategy |-> JString("sideways"), graph_size |-> JNumber(3),
                     start_node |-> JNumber(7), target_node |-> JNumber(1),
                     key |-> JString("key11")],
     input |-> NoInputJSON]
InputBody ==
    [wellFormed |-> TRUE, parameters |-> [pivot_strategy |-> JString("first")],
     input |-> ArrayJSON(<<3, 1, 2>>)]

Request(algorithmID, body) == [algorithmID |-> algorithmID, body |-> body]
NoRequest == Request("", MalformedBody)

\* the requests of the model: an id the registry does not hold (with and without a
\* decodable body), and registered ids with bodies that are malformed, fail
\* validation, make Execute fail (a JSON array is never a []int) or let it run
Requests ==
    { Request("unknown_algorithm", EmptyBody), Request("unknown_algorithm", MalformedBody),
      Request("binary_search", MalformedBody), Request("quick_sort", ParametersBody),
      Request("bubble_sort", InputBody), Request("binary_search", ParametersBody) }

-----------------------------------------------------------------------------
(* Calls of ValidateParameters / Execute with Go values that no JSON body   *)
(* decodes to (int parameters, []int input): the AlgorithmExecutor contract *)

Call(algorithmID, input, parameters) ==
    [algorithmID |-> algorithmID, Input |-> input, Parameters |-> parameters]

\* map[string]interface{}{name: v}
With(name, v) == [n \in {name} |-> v]

\* values of a kind the parameter does not declare
WrongKinds(p) ==
    {v \in {StringVal("abc"), Float64Val(5), BoolVal(FALSE), IntVal(1)} : v.kind # p.Type}

\* the values tried for a declared parameter: around its Min and above its Max when
\* it declares them, its default (and an unknown string) otherwise, and the wrong kinds
ParameterGrid(p) ==
    (IF p.HasMin /\ p.HasMax
     THEN {IntVal(p.Min - 1), IntVal(p.Min), IntVal(p.Min + 1), IntVal(p.Max + 1)}
     ELSE IF p.Type = "string" THEN {p.Default, StringVal("sideways")}
     ELSE {p.Default}) \cup WrongKinds(p)

\* input absent, one declared parameter supplied
ParameterCallsOf(a) ==
    UNION { { Call(a.ID, NilInput, With(a.Parameters[k].Name, v)) :
                v \in ParameterGrid(a.Parameters[k]) } : k \in DOMAIN a.Parameters }

ParameterCalls ==
    UNION { ParameterCallsOf(registerAlgorithms[i]) : i \in DOMAIN registerAlgorithms }

\* input absent, no parameter supplied
DefaultCalls ==
    { Call(registerAlgorithms[i].ID, NilInput, <<>>) : i \in DOMAIN registerAlgorithms }

\* a small graph with start and target inside and outside it
GraphCalls ==
    { Call(id, NilInput, [graph_size |-> IntVal(3), start_node |-> IntVal(s),
                          target_node |-> IntVal(t)]) :
        id \in {"dfs", "bfs"}, s \in {0, 2, 5}, t \in {2, 5} }

\* every start and target inside the graph, for the small graphs; the ends and the
\* middle of the largest graph that passes validation
InRangeGraphCalls ==
    UNION { { Call(id, NilInput, [graph_size |-> IntVal(n), start_node |-> IntVal(s),
                                  target_node |-> IntVal(t)]) :
                id \in {"dfs", "bfs"}, s \in 0..(n - 1), t \in 0..(n - 1) } :
            n \in 3..MaxGraphSize }
    \cup { Call(id, NilInput, [graph_size |-> IntVal(20), start_node |-> IntVal(s),
                               target_node |-> IntVal(t)]) :
             id \in {"dfs", "bfs"}, s \in {0, 10, 19}, t \in {0, 10, 19} }

\* every table size that passes validation with every key of the model
HashCalls ==
    { Call("hash_lookup", NilInput, [table_size |-> IntVal(n), key |-> StringVal(k)]) :
        n \in 5..50, k \in DOMAIN KeyRunes }

\* a generated array of every small size that passes validation, for an executor of
\* each package that holds generateRandomArray
ArraySizeCalls ==
    { Call(id, NilInput, [array_size |-> IntVal(n)]) :
        id \in {"bubble_sort", "linear_search"}, n \in 3..MaxArraySize }

\* the three pivot strategies on a small generated array
PivotCalls ==
    { Call("quick_sort", NilInput, [array_size |-> IntVal(4), pivot_strategy |-> StringVal(s)]) :
        s \in {"first", "last", "middle"} }

\* every []int over 0..MaxInputVal of length 0..MaxInputLen, a []int that holds the
\* largest int, and one []interface{}
Inputs ==
    { IntsInput(a) : a \in UNION { [1..n -> 0..MaxInputVal] : n \in 0..MaxInputLen } }
    \cup { IntsInput(<<MaxInt>>), IfacesInput(<<3, 1, 2>>) }

\* the executors that read their input argument
InputCalls ==
    { Call(id, in, <<>>) :
        id \in {"bubble_sort", "merge_sort", "quick_sort", "heap_sort", "counting_sort",
                "linear_search", "binary_search"},
        in \in Inputs }

\* a binary search for every target in and just outside the range of the inputs
SearchCalls ==
    { Call("binary_search", in, [target |-> IntVal(t)]) :
        in \in {i \in Inputs : i.kind = "ints"}, t \in 0..(MaxInputVal + 1) }

\* quick sort with each pivot strategy on every []int input
PivotInputCalls ==
    { Call("quick_sort", in, [pivot_strategy |-> StringVal(s)]) :
        in \in {i \in Inputs : i.kind = "ints"}, s \in {"first", "last", "middle"} }

DirectCalls ==
    ParameterCalls \cup DefaultCalls \cup GraphCalls \cup PivotCalls \cup InputCalls
    \cup SearchCalls \cup PivotInputCalls \cup InRangeGraphCalls \cup HashCalls
    \cup ArraySizeCalls

\* what the handler hands to ValidateParameters / Execute for a decodable request
RequestCall(request) ==
    Call(request.algorithmID, Decode(request.body).Input, Decode(request.body).Parameters)

\* Execute is a function of its arguments: its runs on the calls of the model that
\* name a registered executor and pass its validation
Runs ==
    [c \in { d \in DirectCalls \cup { RequestCall(request) : request \in Requests } :
                /\ GetAlgorithm(d.algorithmID).exists
                /\ ValidateParameters(GetAlgorithm(d.algorithmID).algorithm, d.Parameters) = NilErr }
        |-> Execute(GetAlgorithm(c.algorithmID).algorithm, c.Input, c.Parameters)]

-----------------------------------------------------------------------------
(* Handlers.ExecuteAlgorithm and executeAlgorithmAsync                      *)

StatusPending == "pending"
StatusRunning == "running"
StatusPaused == "paused"
StatusCompleted == "completed"
StatusError == "error"
StatusCancelled == "cancelled"

MessageTypeExecutionStep == "execution_step"
MessageTypeExecutionComplete == "execution_complete"
MessageTypeExecutionError == "execution_error"
MessageTypeExecutionPause == "execution_pause"
MessageTypeExecutionResume == "execution_resume"
MessageTypeExecutionCancel == "execution_cancel"

\* fmt.Sprintf("exec_%d", nanos)
ExecutionID(nanos) == [prefix |-> "exec_", nanos |-> nanos]
NoID == [prefix |-> "", nanos |-> 0]

\* the "step" member of an execution_step envelope, as json.Marshal wrote it: data is
\* the content, at that moment, of the buffers the step's Data points to
NoStep == [StepNumber |-> 0, Action |-> "", data |-> <<>>]

NoMessage == [Type |-> "", execution_id |-> NoID, step |-> NoStep, error |-> NilErr,
              output |-> NilOutput, steps_count |-> 0]

\* a handler that creates the execution pending, to be started later
NewExecutionPending(executionID, algorithmID, parameters, input) ==
    [ID |-> executionID, AlgorithmID |-> algorithmID, Parameters |-> parameters,
     Input |-> input, Steps |-> <<>>, Status |-> StatusPending, Output |-> NilOutput,
     EndTimeSet |-> FALSE,
     pc |-> "execute", heap |-> <<>>, output |-> NilOutput, err |-> NilErr,
     message |-> NoMessage, sent |-> <<>>]

\* &types.AlgorithmExecution{...} of the handler, with the locals of the goroutine
\* that runs it: pc, the buffers of the run (heap), Execute's results, the message
\* being built, and sent, the envelopes this goroutine handed to Hub.Broadcast
NewExecution(executionID, algorithmID, parameters, input) ==
    [ID |-> executionID, AlgorithmID |-> algorithmID, Parameters |-> parameters,
     Input |-> input, Steps |-> <<>>, Status |-> StatusRunning, Output |-> NilOutput,
     EndTimeSet |-> FALSE,
     pc |-> "execute", heap |-> <<>>, output |-> NilOutput, err |-> NilErr,
     message |-> NoMessage, sent |-> <<>>]

\* Hub.Broadcast(jsonData): hands the envelope to the hub and returns
HubBroadcast(sent, envelope) == Append(sent, envelope)

\* the run of the execution's algorithm on its input and parameters
RunOf(x) == Runs[Call(x.AlgorithmID, x.Input, x.Parameters)]

\* time.Now().UnixNano(): not before the last reading, and possibly equal to it
\* (the first reading is any instant: one value stands for all)
ClockReadings == IF execs = <<>> THEN {now + 1} ELSE {now, now + 1}

\* the response written to the caller; seq counts the responses written so far
Respond(code, executionID, request) ==
    [seq |-> response.seq + 1, code |-> code, execution_id |-> executionID,
     request |-> request]

NoResponse == [seq |-> 0, code |-> 0, execution_id |-> NoID, request |-> NoRequest]

\* a handler that decodes the body before it looks the id up
ExecuteAlgorithmOutcomeDecodeFirst(request, nanos) ==
    LET found == GetAlgorithm(request.algorithmID)
        decoded == Decode(request.body)
    IN IF decoded.err # NilErr
       THEN [code |-> 400, spawn |-> FALSE, execution |-> <<>>]
       ELSE IF ~found.exists
       THEN [code |-> 404, spawn |-> FALSE, execution |-> <<>>]
       ELSE IF ValidateParameters(found.algorithm, decoded.Parameters) # NilErr
       THEN [code |-> 400, spawn |-> FALSE, execution |-> <<>>]
       ELSE [code |-> 200, spawn |-> TRUE,
             execution |-> NewExecution(ExecutionID(nanos), request.algorithmID,
                                        decoded.Parameters, decoded.Input)]

\* a handler that drops the error of Decode and goes on with the zero request
ExecuteAlgorithmOutcomeIgnoreDecodeErr(request, nanos) ==
    LET found == GetAlgorithm(request.algorithmID)
        decoded == Decode(request.body)
    IN IF ~found.exists
       THEN [code |-> 404, spawn |-> FALSE, execution |-> <<>>]
       ELSE IF ValidateParameters(found.algorithm, decoded.Parameters) # NilErr
       THEN [code |-> 400, spawn |-> FALSE, execution |-> <<>>]
       ELSE [code |-> 200, spawn |-> TRUE,
             execution |-> NewExecution(ExecutionID(nanos), request.algorithmID,
                                        decoded.Parameters, decoded.Input)]

\* ExecuteAlgorithm answering one request: 404, 400, or the "started" acknowledgment
\* after creating the execution context and starting its goroutine
ExecuteAlgorithmOutcome(request, nanos) ==
    LET found == GetAlgorithm(request.algorithmID)
        decoded == Decode(request.body)
    IN IF ~found.exists
       THEN [code |-> 404, spawn |-> FALSE, execution |-> <<>>]
       ELSE IF decoded.err # NilErr
       THEN [code |-> 400, spawn |-> FALSE, execution |-> <<>>]
       ELSE IF ValidateParameters(found.algorithm, decoded.Parameters) # NilErr
       THEN [code |-> 400, spawn |-> FALSE, execution |-> <<>>]
       ELSE [code |-> 200, spawn |-> TRUE,
             execution |-> NewExecution(ExecutionID(nanos), request.algorithmID,
                                        decoded.Parameters, decoded.Input)]

\* a handler that starts the goroutine of an accepted submission twice
ExecuteAlgorithmSpawnTwice(request) ==
    /\ ~crashed
    /\ response.seq < MaxRequests
    /\ \E nanos \in ClockReadings :
        LET out == ExecuteAlgorithmOutcome(request, nanos)
        IN IF out.spawn
           THEN /\ Len(execs) + 1 < MaxExec
                /\ now' = nanos
                /\ execs' = Append(Append(execs, out.execution), out.execution)
                /\ response' = Respond(200, out.execution.ID, request)
           ELSE /\ now' = now
                /\ execs' = execs
                /\ response' = Respond(out.code, NoID, request)
    /\ UNCHANGED <<crashed, call, verr, subscribers, hub>>

\* Handlers.ExecuteAlgorithm serving one request
ExecuteAlgorithm(request) ==
    /\ ~crashed
    /\ response.seq < MaxRequests
    /\ \E nanos \in ClockReadings :
        LET out == ExecuteAlgorithmOutcome(request, nanos)
        IN IF out.spawn
           THEN /\ Len(execs) < MaxExec
                /\ now' = nanos
                /\ execs' = Append(execs, out.execution)
                /\ response' = Respond(200, out.execution.ID, request)
           ELSE /\ now' = now
                /\ execs' = execs
                /\ response' = Respond(out.code, NoID, request)
    /\ UNCHANGED <<crashed, call, verr, subscribers, hub>>

\* a callback that puts the new step in front of the recorded ones
StepCallbackPrepend(e) ==
    /\ e \in DOMAIN execs
    /\ ~crashed
    /\ execs[e].pc = "execute"
    /\ \E run \in {RunOf(execs[e])} :
        /\ Len(execs[e].Steps) < Len(run.steps)
        /\ \E step \in {run.steps[Len(execs[e].Steps) + 1]} :
            execs' = [execs EXCEPT
                ![e].Steps = <<[StepNumber |-> step.StepNumber,
                                Action |-> step.Action, refs |-> step.refs]>> \o @,
                ![e].heap = step.mem,
                ![e].sent = HubBroadcast(@,
                    [NoMessage EXCEPT
                        !.Type = MessageTypeExecutionStep,
                        !.step = [StepNumber |-> step.StepNumber,
                                  Action |-> step.Action,
                                  data |-> [b \in step.refs |-> step.mem[b]]]])]
    /\ UNCHANGED <<now, response, crashed, call, verr, subscribers, hub>>

\* one call of stepCallback from inside Execute: append the step, broadcast it
StepCallback(e) ==
    /\ e \in DOMAIN execs
    /\ ~crashed
    /\ execs[e].pc = "execute"
    /\ \E run \in {RunOf(execs[e])} :
        /\ Len(execs[e].Steps) < Len(run.steps)
        /\ \E step \in {run.steps[Len(execs[e].Steps) + 1]} :
            execs' = [execs EXCEPT
                ![e].Steps = Append(@, [StepNumber |-> step.StepNumber,
                                       Action |-> step.Action, refs |-> step.refs]),
                ![e].heap = step.mem,
                ![e].sent = HubBroadcast(@,
                    [NoMessage EXCEPT
                        !.Type = MessageTypeExecutionStep,
                        !.step = [StepNumber |-> step.StepNumber,
                                  Action |-> step.Action,
                                  data |-> [b \in step.refs |-> step.mem[b]]]])]
    /\ UNCHANGED <<now, response, crashed, call, verr, subscribers, hub>>

\* output, err := algorithm.Execute(...) ends: it returns, or a run-time panic
\* unwinds the goroutine; nothing recovers it and the process ends
ExecuteReturn(e) ==
    /\ e \in DOMAIN execs
    /\ ~crashed
    /\ execs[e].pc = "execute"
    /\ \E run \in {RunOf(execs[e])} :
        /\ Len(execs[e].Steps) = Len(run.steps)
        /\ IF run.panicked
           THEN /\ execs' = [execs EXCEPT ![e].pc = "panicked", ![e].heap = run.mem]
                /\ crashed' = TRUE
           ELSE /\ execs' = [execs EXCEPT ![e].pc = "returned", ![e].heap = run.mem,
                                          ![e].output = run.output, ![e].err = run.err]
                /\ crashed' = crashed
    /\ UNCHANGED <<now, response, call, verr, subscribers, hub>>

\* goroutines that share one execution variable: the writes land on every context
SetCompletedShared(e) ==
    /\ e \in DOMAIN execs
    /\ ~crashed
    /\ execs[e].pc = "returned"
    /\ execs' = [i \in DOMAIN execs |->
                    [execs[i] EXCEPT !.pc = IF i = e THEN "completed" ELSE @,
                                     !.Status = StatusCompleted,
                                     !.EndTimeSet = TRUE,
                                     !.Output = execs[e].output]]
    /\ UNCHANGED <<now, response, crashed, call, verr, subscribers, hub>>

\* execution.Status = StatusCompleted; execution.EndTime = &now; execution.Output = output
SetCompleted(e) ==
    /\ e \in DOMAIN execs
    /\ ~crashed
    /\ execs[e].pc = "returned"
    /\ execs' = [execs EXCEPT ![e].pc = "completed", ![e].Status = StatusCompleted,
                              ![e].EndTimeSet = TRUE, ![e].Output = execs[e].output]
    /\ UNCHANGED <<now, response, crashed, call, verr, subscribers, hub>>

\* a goroutine that calls Execute again when it returned an error
BuildMessageRetry(e) ==
    /\ e \in DOMAIN execs
    /\ ~crashed
    /\ execs[e].pc = "completed"
    /\ IF execs[e].err # NilErr
       THEN execs' = [execs EXCEPT ![e].pc = "execute", ![e].Status = StatusError,
                                   ![e].Steps = <<>>]
       ELSE execs' = [execs EXCEPT
                ![e].pc = "built",
                ![e].message = [NoMessage EXCEPT !.Type = MessageTypeExecutionComplete,
                                                 !.execution_id = execs[e].ID,
                                                 !.output = execs[e].output,
                                                 !.steps_count = Len(execs[e].Steps)]]
    /\ UNCHANGED <<now, response, crashed, call, verr, subscribers, hub>>

\* a goroutine that builds the error message but leaves Status as it was set
BuildMessageKeepStatus(e) ==
    /\ e \in DOMAIN execs
    /\ ~crashed
    /\ execs[e].pc = "completed"
    /\ IF execs[e].err # NilErr
       THEN execs' = [execs EXCEPT
                ![e].pc = "built",
                ![e].message = [NoMessage EXCEPT !.Type = MessageTypeExecutionError,
                                                 !.execution_id = execs[e].ID,
                                                 !.error = execs[e].err]]
       ELSE execs' = [execs EXCEPT
                ![e].pc = "built",
                ![e].message = [NoMessage EXCEPT !.Type = MessageTypeExecutionComplete,
                                                 !.execution_id = execs[e].ID,
                                                 !.output = execs[e].output,
                                                 !.steps_count = Len(execs[e].Steps)]]
    /\ UNCHANGED <<now, response, crashed, call, verr, subscribers, hub>>

\* if err != nil { Status = StatusError; error message } else { completion message }
BuildMessage(e) ==
    /\ e \in DOMAIN execs
    /\ ~crashed
    /\ execs[e].pc = "completed"
    /\ IF execs[e].err # NilErr
       THEN execs' = [execs EXCEPT
                ![e].pc = "built", ![e].Status = StatusError,
                ![e].message = [NoMessage EXCEPT !.Type = MessageTypeExecutionError,
                                                 !.execution_id = execs[e].ID,
                                                 !.error = execs[e].err]]
       ELSE execs' = [execs EXCEPT
                ![e].pc = "built",
                ![e].message = [NoMessage EXCEPT !.Type = MessageTypeExecutionComplete,
                                                 !.execution_id = execs[e].ID,
                                                 !.output = execs[e].output,
                                                 !.steps_count = Len(execs[e].Steps)]]
    /\ UNCHANGED <<now, response, crashed, call, verr, subscribers, hub>>

\* a goroutine that sends the completion envelope after the error envelope too
BroadcastMessageBoth(e) ==
    /\ e \in DOMAIN execs
    /\ ~crashed
    /\ execs[e].pc = "built"
    /\ execs' = [execs EXCEPT
            ![e].pc = "done",
            ![e].sent = IF execs[e].err # NilErr
                        THEN HubBroadcast(HubBroadcast(@, execs[e].message),
                                          [execs[e].message EXCEPT
                                              !.Type = MessageTypeExecutionComplete])
                        ELSE HubBroadcast(@, execs[e].message)]
    /\ UNCHANGED <<now, response, crashed, call, verr, subscribers, hub>>

\* a goroutine whose Broadcast returns only once the loop has taken the envelopes
\* handed over before it and is idle
BroadcastMessageWait(e) ==
    /\ e \in DOMAIN execs
    /\ ~crashed
    /\ execs[e].pc = "built"
    /\ hub.op = "idle"
    /\ hub.taken[e] = Len(execs[e].sent)
    /\ execs' = [execs EXCEPT ![e].pc = "done",
                              ![e].sent = HubBroadcast(@, execs[e].message)]
    /\ UNCHANGED <<now, response, crashed, call, verr, subscribers, hub>>

\* jsonData, _ := json.Marshal(message); h.hub.Broadcast(jsonData); the goroutine ends
BroadcastMessage(e) ==
    /\ e \in DOMAIN execs
    /\ ~crashed
    /\ execs[e].pc = "built"
    /\ execs' = [execs EXCEPT ![e].pc = "done",
                              ![e].sent = HubBroadcast(@, execs[e].message)]
    /\ UNCHANGED <<now, response, crashed, call, verr, subscribers, hub>>

\* the goroutine started by  go h.executeAlgorithmAsync(algorithm, execution)  for the
\* e-th execution: it has steps to take once the handler has created the execution
executeAlgorithmAsync(e) ==
    \/ StepCallback(e)
    \/ ExecuteReturn(e)
    \/ SetCompleted(e)
    \/ BuildMessage(e)
    \/ BroadcastMessage(e)

NoCall == Call("", NilInput, <<>>)

\* the connections that may subscribe (websocket.HandleWebSocket, one per connection)
Subscribers == {"s1", "s2"}

\* a subscriber before it asked anything: Connecting, an empty outbound queue.
\* asked: the operation its connection has sent to the hub and the hub has not
\* taken up ("none" when there is none: a connection sends one at a time); seen:
\* the place in the hub's log up to which its stream extends (the length of the log
\* when it registered, then the last broadcast enqueued for it); closes: how often
\* its queue was closed
NewSubscriber ==
    [state |-> "connecting", asked |-> "none", registerAsked |-> FALSE,
     unregisterAsks |-> 0, queue |-> <<>>, seen |-> 0, closes |-> 0]

\* websocket.NewHub(): idle, nothing taken up. taken[e]: how many of the envelopes
\* the e-th goroutine handed to Broadcast the loop has taken up; log: the broadcasts
\* in the order the loop took them up (<<e, i>> is execs[e].sent[i]); msg, todo: the
\* broadcast being fanned out and the subscribers still to be attempted
NewHub ==
    [op |-> "idle", msg |-> 0, todo |-> {}, taken |-> [e \in 1..MaxExec |-> 0],
     log |-> <<>>]

\* the server after main: an empty set of executions, no request answered yet
Init ==
    /\ now = 0
    /\ execs = <<>>
    /\ response = NoResponse
    /\ crashed = FALSE
    /\ call = NoCall
    /\ verr = "unset"
    /\ subscribers = [c \in Subscribers |-> NewSubscriber]
    /\ hub = NewHub

Next ==
    \/ \E request \in Requests : ExecuteAlgorithm(request)
    \/ \E e \in 1..MaxExec : executeAlgorithmAsync(e)

Spec == Init /\ [][Next]_vars

\* the Go scheduler runs every runnable goroutine: a goroutine that can take its
\* next step eventually takes it
FairSpec == Spec /\ \A e \in 1..MaxExec : WF_vars(executeAlgorithmAsync(e))

-----------------------------------------------------------------------------
(* The executor contract exercised in process: ValidateParameters on a call,*)
(* then, if it returned nil, the execution as the handler starts it          *)

InitCall ==
    /\ now = 0
    /\ execs = <<>>
    /\ response = NoResponse
    /\ crashed = FALSE
    /\ call \in DirectCalls
    /\ verr = "unset"
    /\ subscribers = [c \in Subscribers |-> NewSubscriber]
    /\ hub = NewHub

\* if err := algorithm.ValidateParameters(request.Parameters); err != nil
DirectValidate ==
    /\ verr = "unset"
    /\ verr' = ValidateParameters(GetAlgorithm(call.algorithmID).algorithm, call.Parameters)
    /\ UNCHANGED <<now, execs, response, crashed, call, subscribers, hub>>

\* the execution context and its goroutine, as ExecuteAlgorithm creates them
DirectExecute ==
    /\ verr = NilErr
    /\ execs = <<>>
    /\ now' = now + 1
    /\ execs' = <<NewExecution(ExecutionID(now + 1), call.algorithmID, call.Parameters,
                               call.Input)>>
    /\ UNCHANGED <<response, crashed, call, verr, subscribers, hub>>

NextCall ==
    \/ DirectValidate
    \/ DirectExecute
    \/ \E e \in 1..MaxExec : executeAlgorithmAsync(e)

SpecCall == InitCall /\ [][NextCall]_vars

-----------------------------------------------------------------------------
(* Callers of the registry: response holds what the registry last returned  *)

\* the ids and categories asked for: the registered ones, ids that differ from a
\* registered one in case or by a prefix, and the categories of types.AlgorithmCategory
QueriedIds ==
    DOMAIN NewRegistry \cup {"", "unknown_algorithm", "Bubble_Sort", "bubble", "sorting"}
QueriedCategories ==
    {"sorting", "searching", "graphs_trees", "pathfinding", "dynamic_programming",
     "greedy", "strings", "number_theory", "randomized", "optimization", "", "Sorting"}

RegistryResult(op, arg, found, algorithm, algorithms) ==
    [seq |-> response.seq + 1, op |-> op, arg |-> arg, found |-> found,
     algorithm |-> algorithm, algorithms |-> algorithms]

InitRegistry ==
    /\ now = 0
    /\ execs = <<>>
    /\ response = [seq |-> 0, op |-> "", arg |-> "", found |-> FALSE,
                   algorithm |-> GetAlgorithm("").algorithm, algorithms |-> <<>>]
    /\ crashed = FALSE
    /\ call = NoCall
    /\ verr = "unset"
    /\ subscribers = [c \in Subscribers |-> NewSubscriber]
    /\ hub = NewHub

\* algorithm, exists := registry.GetAlgorithm(id)
CallGetAlgorithm(id) ==
    /\ response.seq < MaxRequests
    /\ response' = RegistryResult("GetAlgorithm", id, GetAlgorithm(id).exists,
                                  GetAlgorithm(id).algorithm, <<>>)
    /\ UNCHANGED <<now, execs, crashed, call, verr, subscribers, hub>>

\* algorithms := registry.GetAllAlgorithms()
CallGetAllAlgorithms ==
    /\ response.seq < MaxRequests
    /\ \E order \in MapOrders :
        response' = RegistryResult("GetAllAlgorithms", "", FALSE, GetAlgorithm("").algorithm,
                                   GetAllAlgorithms(order))
    /\ UNCHANGED <<now, execs, crashed, call, verr, subscribers, hub>>

\* algorithms := registry.GetAlgorithmsByCategory(category)
CallGetAlgorithmsByCategory(category) ==
    /\ response.seq < MaxRequests
    /\ \E order \in MapOrders :
        response' = RegistryResult("GetAlgorithmsByCategory", category, FALSE,
                                   GetAlgorithm("").algorithm,
                                   GetAlgorithmsByCategory(order, category))
    /\ UNCHANGED <<now, execs, crashed, call, verr, subscribers, hub>>

NextRegistry ==
    \/ \E id \in QueriedIds : CallGetAlgorithm(id)
    \/ CallGetAllAlgorithms
    \/ \E category \in QueriedCategories : CallGetAlgorithmsByCategory(category)

SpecRegistry == InitRegistry /\ [][NextRegistry]_vars

-----------------------------------------------------------------------------
(* The broadcast hub (package websocket): its coordination loop, the         *)
(* connections that register and unregister, and the goroutines that         *)
(* broadcast                                                                  *)

\* a connection asks the hub to register it
AskRegister(c) ==
    /\ ~subscribers[c].registerAsked
    /\ subscribers[c].asked = "none"
    /\ subscribers' = [subscribers EXCEPT ![c].registerAsked = TRUE,
                                          ![c].asked = "register"]
    /\ UNCHANGED <<now, execs, response, crashed, call, verr, hub>>

\* a connection asks the hub to unregister it: on disconnect, again, or without
\* ever having been registered
AskUnregister(c) ==
    /\ subscribers["s1"].unregisterAsks + subscribers["s2"].unregisterAsks < MaxUnregister
    /\ subscribers[c].asked = "none"
    /\ subscribers' = [subscribers EXCEPT ![c].unregisterAsks = @ + 1,
                                          ![c].asked = "unregister"]
    /\ UNCHANGED <<now, execs, response, crashed, call, verr, hub>>

\* the connection's writer takes the next message off its outbound queue
WritePump(c) ==
    /\ subscribers[c].queue # <<>>
    /\ subscribers' = [subscribers EXCEPT ![c].queue = Tail(@)]
    /\ UNCHANGED <<now, execs, response, crashed, call, verr, hub>>

\* a loop that takes up register while a fan-out is in progress
HubRegisterAnytime(c) ==
    /\ subscribers[c].asked = "register"
    /\ subscribers' = [subscribers EXCEPT ![c].asked = "none",
                                          ![c].state = "registered",
                                          ![c].seen = Len(hub.log)]
    /\ UNCHANGED <<now, execs, response, crashed, call, verr, hub>>

\* a loop that hands a new subscriber the last broadcast it missed
HubRegisterReplay(c) ==
    /\ hub.op = "idle"
    /\ subscribers[c].asked = "register"
    /\ subscribers' = [subscribers EXCEPT
            ![c].asked = "none",
            ![c].state = "registered",
            ![c].queue = IF hub.log = <<>> THEN @ ELSE Append(@, Len(hub.log)),
            ![c].seen = Len(hub.log)]
    /\ UNCHANGED <<now, execs, response, crashed, call, verr, hub>>

\* the loop takes up register(subscriber): the subscriber joins the set
HubRegister(c) ==
    /\ hub.op = "idle"
    /\ subscribers[c].asked = "register"
    /\ subscribers' = [subscribers EXCEPT ![c].asked = "none",
                                          ![c].state = "registered",
                                          ![c].seen = Len(hub.log)]
    /\ UNCHANGED <<now, execs, response, crashed, call, verr, hub>>

\* a loop that closes the queue of whatever subscriber unregister names
HubUnregisterNoCheck(c) ==
    /\ hub.op = "idle"
    /\ subscribers[c].asked = "unregister"
    /\ subscribers' = [subscribers EXCEPT ![c].asked = "none", ![c].state = "closed",
                                          ![c].queue = <<>>, ![c].seen = 0,
                                          ![c].closes = @ + 1]
    /\ UNCHANGED <<now, execs, response, crashed, call, verr, hub>>

\* the loop takes up unregister(subscriber): a registered subscriber is removed and
\* its queue closed and released; for any other subscriber nothing happens
HubUnregister(c) ==
    /\ hub.op = "idle"
    /\ subscribers[c].asked = "unregister"
    /\ subscribers' = [subscribers EXCEPT
            ![c].asked = "none",
            ![c].state = IF @ = "registered" THEN "closed" ELSE @,
            ![c].queue = IF subscribers[c].state = "registered" THEN <<>> ELSE @,
            ![c].seen = IF subscribers[c].state = "registered" THEN 0 ELSE @,
            ![c].closes = IF subscribers[c].state = "registered" THEN @ + 1 ELSE @]
    /\ UNCHANGED <<now, execs, response, crashed, call, verr, hub>>

\* the loop takes up the next envelope the e-th goroutine handed to Broadcast and
\* starts its fan-out to the subscribers registered at that moment
HubTakeBroadcast(e) ==
    /\ hub.op = "idle"
    /\ e \in DOMAIN execs
    /\ hub.taken[e] < Len(execs[e].sent)
    /\ \E targets \in {{c \in Subscribers : subscribers[c].state = "registered"}} :
        hub' = [hub EXCEPT !.taken[e] = @ + 1,
                           !.log = Append(@, <<e, hub.taken[e] + 1>>),
                           !.msg = Len(hub.log) + 1,
                           !.todo = targets,
                           !.op = IF targets = {} THEN "idle" ELSE "broadcast"]
    /\ UNCHANGED <<now, execs, response, crashed, call, verr, subscribers>>

\* a fan-out that stops at the first full queue
HubDeliverAbort(c) ==
    /\ hub.op = "broadcast"
    /\ c \in hub.todo
    /\ IF Len(subscribers[c].queue) < QueueCapacity
       THEN /\ subscribers' = [subscribers EXCEPT ![c].queue = Append(@, hub.msg),
                                                  ![c].seen = hub.msg]
            /\ hub' = [hub EXCEPT !.todo = @ \ {c},
                                  !.op = IF hub.todo = {c} THEN "idle" ELSE "broadcast"]
       ELSE /\ subscribers' = [subscribers EXCEPT ![c].state = "closed", ![c].closes = @ + 1,
                                                  ![c].queue = <<>>, ![c].seen = 0]
            /\ hub' = [hub EXCEPT !.todo = {}, !.op = "idle"]
    /\ UNCHANGED <<now, execs, response, crashed, call, verr>>

\* a fan-out that drops the message for a full queue and keeps the subscriber
HubDeliverDrop(c) ==
    /\ hub.op = "broadcast"
    /\ c \in hub.todo
    /\ subscribers' =
            IF Len(subscribers[c].queue) < QueueCapacity
            THEN [subscribers EXCEPT ![c].queue = Append(@, hub.msg), ![c].seen = hub.msg]
            ELSE subscribers
    /\ hub' = [hub EXCEPT !.todo = @ \ {c},
                          !.op = IF hub.todo = {c} THEN "idle" ELSE "broadcast"]
    /\ UNCHANGED <<now, execs, response, crashed, call, verr>>

\* one attempt of the fan-out: enqueue without blocking, or, the queue being full,
\* unregister that subscriber, close and release its queue; then on to the next
HubDeliver(c) ==
    /\ hub.op = "broadcast"
    /\ c \in hub.todo
    /\ subscribers' =
            IF Len(subscribers[c].queue) < QueueCapacity
            THEN [subscribers EXCEPT ![c].queue = Append(@, hub.msg), ![c].seen = hub.msg]
            ELSE [subscribers EXCEPT ![c].state = "closed", ![c].closes = @ + 1,
                                     ![c].queue = <<>>, ![c].seen = 0]
    /\ hub' = [hub EXCEPT !.todo = @ \ {c},
                          !.op = IF hub.todo = {c} THEN "idle" ELSE "broadcast"]
    /\ UNCHANGED <<now, execs, response, crashed, call, verr>>

\* go hub.Run(): the one loop that owns the subscriber set
HubRun ==
    \/ \E c \in Subscribers : HubRegister(c)
    \/ \E c \in Subscribers : HubUnregister(c)
    \/ \E e \in 1..MaxExec : HubTakeBroadcast(e)
    \/ \E c \in Subscribers : HubDeliver(c)

\* the server with two submissions accepted and answered: a binary_search whose
\* goroutine has not run yet (three steps, then execution_complete) and a
\* bubble_sort whose Execute failed and whose goroutine is about to broadcast
\* execution_error; the hub idle, no subscriber registered
InitHub ==
    /\ now = 2
    /\ \E x \in {ExecuteAlgorithmOutcome(Request("bubble_sort", InputBody), 2).execution} :
       \E run \in {RunOf(x)} :
        execs =
          <<ExecuteAlgorithmOutcome(Request("binary_search", ParametersBody), 1).execution,
            [x EXCEPT !.pc = "built", !.heap = run.mem, !.err = run.err,
                      !.output = run.output, !.Output = run.output,
                      !.Status = StatusError, !.EndTimeSet = TRUE,
                      !.message = [NoMessage EXCEPT !.Type = MessageTypeExecutionError,
                                                    !.execution_id = x.ID,
                                                    !.error = run.err]]>>
    /\ response = [seq |-> 2, code |-> 200, execution_id |-> ExecutionID(2),
                   request |-> Request("bubble_sort", InputBody)]
    /\ crashed = FALSE
    /\ call = NoCall
    /\ verr = "unset"
    /\ subscribers = [c \in Subscribers |-> NewSubscriber]
    /\ hub = NewHub

NextHub ==
    \/ \E e \in 1..MaxExec : executeAlgorithmAsync(e)
    \/ \E c \in Subscribers : AskRegister(c)
    \/ \E c \in Subscribers : AskUnregister(c)
    \/ \E c \in Subscribers : WritePump(c)
    \/ HubRun

SpecHub == InitHub /\ [][NextHub]_vars

-----------------------------------------------------------------------------
(* Properties                                                               *)

\* C1: the execution ids of any two distinct accepted submissions differ, in every
\* interleaving, two handlers reading the clock at the same instant included.
C1_ExecutionIdsNeverCollide ==
    \A e1, e2 \in DOMAIN execs : e1 # e2 => execs[e1].ID # execs[e2].ID

\* C2: the status of an execution changes only from Running (to Completed or to
\* Error): a terminal status is never replaced by another value.
C2_StatusChangesOnce ==
    [][\A e \in DOMAIN execs :
          execs'[e].Status # execs[e].Status => execs[e].Status = StatusRunning]_vars

\* the executor the direct call names
CallAlgorithm == GetAlgorithm(call.algorithmID).algorithm

\* C3: when ValidateParameters returned nil for the parameters (input absent), the
\* Execute that follows returns: it never panics.
C3_ValidatedExecuteReturns ==
    (call.Input = NilInput /\ verr = NilErr) =>
        (~crashed /\ \A e \in DOMAIN execs : execs[e].pc # "panicked")

\* C4: for every parameter that declares Min and Max, an int below Min or above Max
\* makes ValidateParameters return an error.
C4_OutOfRangeRejected ==
    verr # "unset" =>
        \A k \in DOMAIN CallAlgorithm.Parameters :
            (/\ CallAlgorithm.Parameters[k].HasMin
             /\ CallAlgorithm.Parameters[k].HasMax
             /\ IsInt(call.Parameters, CallAlgorithm.Parameters[k].Name)
             /\ \/ Get(call.Parameters, CallAlgorithm.Parameters[k].Name).i
                       < CallAlgorithm.Parameters[k].Min
                \/ Get(call.Parameters, CallAlgorithm.Parameters[k].Name).i
                       > CallAlgorithm.Parameters[k].Max)
            => verr # NilErr

\* C5: for every declared parameter, a supplied value of another kind than the
\* declared type makes ValidateParameters return an error.
C5_WrongKindRejected ==
    verr # "unset" =>
        \A k \in DOMAIN CallAlgorithm.Parameters :
            Get(call.Parameters, CallAlgorithm.Parameters[k].Name).kind
                \notin {"nil", CallAlgorithm.Parameters[k].Type}
            => verr # NilErr

\* C6: every step appended to Steps keeps, in the buffers its Data points to, the
\* content they had when the step was emitted (what the step's envelope shows).
C6_StepPayloadsKeepEmissionContent ==
    \A e \in DOMAIN execs :
        \A i \in DOMAIN execs[e].Steps :
            [b \in execs[e].Steps[i].refs |-> execs[e].heap[b]]
                = execs[e].sent[i].step.data

\* C7: a request for an id the registry does not hold is answered 404, whatever its
\* body, with no execution id and no other effect: no execution context, no
\* goroutine, no clock reading, nothing handed to the hub.
C7_UnknownIdIs404NoEffect ==
    [][(/\ response'.seq # response.seq
        /\ ~GetAlgorithm(response'.request.algorithmID).exists)
       => (/\ response'.code = 404
           /\ response'.execution_id = NoID
           /\ execs' = execs
           /\ now' = now
           /\ crashed' = crashed)]_vars

\* a 404 to an unknown id with an undecodable body, while an execution is running
C7_Witness ==
    /\ response.code = 404
    /\ ~GetAlgorithm(response.request.algorithmID).exists
    /\ ~response.request.body.wellFormed
    /\ \E e \in DOMAIN execs : execs[e].pc = "execute"

\* C8: a request for a registered id whose body cannot be decoded, or whose
\* parameters ValidateParameters refuses, is answered 400 with no execution id, and
\* no execution context, goroutine or broadcast comes of it.
C8_BadRequestIs400NoWork ==
    [][(/\ response'.seq # response.seq
        /\ GetAlgorithm(response'.request.algorithmID).exists
        /\ \/ Decode(response'.request.body).err # NilErr
           \/ ValidateParameters(GetAlgorithm(response'.request.algorithmID).algorithm,
                                 Decode(response'.request.body).Parameters) # NilErr)
       => (/\ response'.code = 400
           /\ response'.execution_id = NoID
           /\ execs' = execs
           /\ now' = now)]_vars

\* a 400 to an undecodable body for a registered id, with executions under way
C8_Witness ==
    /\ response.code = 400
    /\ GetAlgorithm(response.request.algorithmID).exists
    /\ Decode(response.request.body).err # NilErr
    /\ execs # <<>>

\* C9: what the goroutine of an execution has handed to the hub is execution_step
\* envelopes, then, once it has ended and only then, one terminal envelope as the
\* last one: execution_error if Execute returned an error, execution_complete if not.
C9_StepsThenOneTerminal ==
    \A e \in DOMAIN execs :
        /\ \A i \in DOMAIN execs[e].sent :
              IF execs[e].pc = "done" /\ i = Len(execs[e].sent)
              THEN /\ execs[e].sent[i].Type =
                        (IF execs[e].err # NilErr THEN MessageTypeExecutionError
                                                  ELSE MessageTypeExecutionComplete)
                   /\ execs[e].sent[i].execution_id = execs[e].ID
              ELSE execs[e].sent[i].Type = MessageTypeExecutionStep
        /\ execs[e].pc = "done" => execs[e].sent # <<>>

\* an ended execution that sent steps and then execution_complete
C9_Witness ==
    \E e \in DOMAIN execs :
        /\ execs[e].pc = "done"
        /\ Len(execs[e].sent) > 1
        /\ execs[e].sent[Len(execs[e].sent)].Type = MessageTypeExecutionComplete

\* C10: under fair scheduling of the goroutines, every accepted submission
\* eventually has a terminal status and has broadcast its terminal envelope.
C10_EventuallyTerminal ==
    \A e \in 1..MaxExec :
        (e \in DOMAIN execs) ~>
            (/\ e \in DOMAIN execs
             /\ execs[e].Status \in {StatusCompleted, StatusError}
             /\ execs[e].pc = "done")

\* an execution that ended with status Error after its execution_error envelope
C10_Witness ==
    \E e \in DOMAIN execs :
        /\ execs[e].pc = "done"
        /\ execs[e].Status = StatusError
        /\ execs[e].sent[Len(execs[e].sent)].Type = MessageTypeExecutionError

\* C11: a failure of Execute reaches the submitter only through the hub. The response
\* to an accepted submission is the "started" acknowledgment with the execution id,
\* whatever the run will return, and no step of the goroutine writes a response; once
\* the goroutine has ended, an error of Execute has left Status Error and a last
\* envelope execution_error with the execution id and that error, and no error has
\* left Status Completed and a last envelope execution_complete with the id and output.
C11_FailureOnlyInTerminalEnvelope ==
    [][/\ Len(execs') > Len(execs) =>
            /\ response'.seq = response.seq + 1
            /\ response'.code = 200
            /\ response'.execution_id = execs'[Len(execs')].ID
       /\ (\E e \in DOMAIN execs : execs'[e] # execs[e]) => response' = response
       /\ \A e \in DOMAIN execs' :
            execs'[e].pc = "done" =>
                IF execs'[e].err # NilErr
                THEN /\ execs'[e].Status = StatusError
                     /\ execs'[e].sent[Len(execs'[e].sent)] =
                            [NoMessage EXCEPT !.Type = MessageTypeExecutionError,
                                              !.execution_id = execs'[e].ID,
                                              !.error = execs'[e].err]
                ELSE /\ execs'[e].Status = StatusCompleted
                     /\ execs'[e].sent[Len(execs'[e].sent)] =
                            [NoMessage EXCEPT !.Type = MessageTypeExecutionComplete,
                                              !.execution_id = execs'[e].ID,
                                              !.output = execs'[e].output,
                                              !.steps_count = Len(execs'[e].Steps)]]_vars

\* the submitter of a failed run holds the 200 "started" response with its id, and
\* the run has ended with Status Error after its execution_error envelope
C11_Witness ==
    \E e \in DOMAIN execs :
        /\ response.code = 200
        /\ response.execution_id = execs[e].ID
        /\ execs[e].pc = "done"
        /\ execs[e].err # NilErr
        /\ execs[e].Status = StatusError

\* C12: Steps only grows at its end, one step per callback, and the execution_step
\* envelopes handed to the hub are those steps, one each, in the same order; the
\* steps_count of execution_complete is the number of steps (and of step envelopes).
C12_StepsAppendOnlyMirrorEmission ==
    [][\A e \in DOMAIN execs' :
          LET old == IF e \in DOMAIN execs THEN execs[e].Steps ELSE <<>>
              oldSent == IF e \in DOMAIN execs THEN execs[e].sent ELSE <<>>
              new == execs'[e].Steps
              newSent == execs'[e].sent
              stepEnvelopes == {i \in DOMAIN newSent :
                                  newSent[i].Type = MessageTypeExecutionStep}
          IN /\ Len(new) \in {Len(old), Len(old) + 1}
             /\ SubSeq(new, 1, Len(old)) = old
             /\ SubSeq(newSent, 1, Len(oldSent)) = oldSent
             /\ Len(new) = Len(old) + 1 =>
                    /\ Len(newSent) = Len(oldSent) + 1
                    /\ newSent[Len(newSent)].Type = MessageTypeExecutionStep
             /\ stepEnvelopes = DOMAIN new
             /\ \A i \in DOMAIN new :
                    /\ newSent[i].step.StepNumber = new[i].StepNumber
                    /\ newSent[i].step.Action = new[i].Action
             /\ \A i \in DOMAIN newSent :
                    newSent[i].Type = MessageTypeExecutionComplete =>
                        newSent[i].steps_count = Len(new)]_vars

\* an ended execution whose execution_complete counts its three recorded steps
C12_Witness ==
    \E e \in DOMAIN execs :
        /\ execs[e].pc = "done"
        /\ Len(execs[e].Steps) >= 3
        /\ execs[e].Steps[1] # execs[e].Steps[2]
        /\ execs[e].sent[Len(execs[e].sent)].steps_count = Len(execs[e].Steps)

\* C13: an accepted submission starts exactly one goroutine, and the handler writes
\* {execution_id, "started"} without waiting for it: when the 200 response is
\* written, one execution has been added, it is Running and has not taken a step,
\* and the other executions are where they were; executions are started by accepted
\* submissions only.
C13_SubmitSpawnsOneAndReturns ==
    [][/\ (response'.seq # response.seq /\ response'.code = 200) =>
            /\ Len(execs') = Len(execs) + 1
            /\ SubSeq(execs', 1, Len(execs)) = execs
            /\ execs'[Len(execs')].ID = response'.execution_id
            /\ execs'[Len(execs')].pc = "execute"
            /\ execs'[Len(execs')].Status = StatusRunning
            /\ execs'[Len(execs')].Steps = <<>>
            /\ execs'[Len(execs')].sent = <<>>
       /\ Len(execs') # Len(execs) =>
            (response'.seq = response.seq + 1 /\ response'.code = 200)]_vars

\* the "started" response of a second submission is out while its execution has
\* not taken a step and the first execution is still inside Execute
C13_Witness ==
    /\ response.code = 200
    /\ Len(execs) = 2
    /\ execs[2].ID = response.execution_id
    /\ execs[2].pc = "execute" /\ execs[2].Steps = <<>>
    /\ execs[2].Status = StatusRunning
    /\ execs[1].pc = "execute" /\ execs[1].Steps # <<>>

C15_BackpressureDropsOnlySlowSubscriber ==
    [][/\ \A c \in Subscribers :
            (hub.op = "broadcast" /\ c \in hub.todo /\ c \notin hub'.todo) =>
                /\ IF Len(subscribers[c].queue) < QueueCapacity
                   THEN /\ subscribers'[c].queue = Append(subscribers[c].queue, hub.msg)
                        /\ subscribers'[c].state = "registered"
                   ELSE /\ subscribers'[c].state = "closed"
                        /\ subscribers'[c].closes = subscribers[c].closes + 1
                /\ \A d \in Subscribers \ {c} : subscribers'[d] = subscribers[d]
                /\ hub'.todo = hub.todo \ {c}
                /\ execs' = execs
       /\ (hub.op = "broadcast" /\ hub'.op = "idle") =>
            \A d \in Subscribers :
                subscribers'[d].state = "registered" => subscribers'[d].seen = hub.msg
       /\ \A c \in Subscribers : Len(subscribers'[c].queue) <= QueueCapacity]_vars

\* after a fan-out: one subscriber, which never asked to unregister, was closed
\* for its full queue, and the other one, registered, has the message
C15_Witness ==
    \E c, d \in Subscribers :
        /\ hub.op = "idle" /\ hub.log # <<>>
        /\ subscribers[c].state = "closed" /\ subscribers[c].unregisterAsks = 0
        /\ subscribers[d].state = "registered"
        /\ subscribers[d].queue # <<>>
        /\ subscribers[d].queue[Len(subscribers[d].queue)] = Len(hub.log)

\* C16: what is enqueued for a subscriber is, in the order of the hub's log, every
\* broadcast the loop took up since the subscriber registered, none skipped: each
\* enqueued message is the one after the last (or the first after registration), so
\* its queue holds consecutive broadcasts and the envelopes of one execution are in
\* it in the order that execution handed them over; two registered subscribers hold
\* the same message at the same place of the log.
C16_PerSubscriberOrder ==
    [][\A c \in Subscribers :
          /\ Len(subscribers'[c].queue) > Len(subscribers[c].queue) =>
                /\ subscribers[c].state = "registered"
                /\ subscribers'[c].queue =
                        Append(subscribers[c].queue, subscribers[c].seen + 1)
                /\ subscribers'[c].seen = subscribers[c].seen + 1
                /\ subscribers'[c].seen = hub.msg
          /\ (subscribers'[c].state = "registered" /\ hub'.op = "idle") =>
                subscribers'[c].seen = Len(hub'.log)
          /\ \A k \in DOMAIN subscribers'[c].queue :
                /\ subscribers'[c].queue[k] =
                        subscribers'[c].seen - Len(subscribers'[c].queue) + k
                /\ subscribers'[c].queue[k] \in DOMAIN hub'.log
          /\ \A j, k \in DOMAIN subscribers'[c].queue :
                (/\ j < k
                 /\ hub'.log[subscribers'[c].queue[j]][1] = hub'.log[subscribers'[c].queue[k]][1])
                => hub'.log[subscribers'[c].queue[j]][2] < hub'.log[subscribers'[c].queue[k]][2]]_vars

\* two registered subscribers, one holding two steps of the first execution, the
\* other at another place of the same stream
C16_Witness ==
    \E c, d \in Subscribers :
        /\ subscribers[c].state = "registered" /\ subscribers[d].state = "registered"
        /\ Len(subscribers[c].queue) = 2
        /\ hub.log[subscribers[c].queue[1]][1] = 1
        /\ hub.log[subscribers[c].queue[2]][1] = 1
        /\ subscribers[d].queue # <<>>
        /\ subscribers[d].queue # subscribers[c].queue

\* C17: a queue is closed at most once and exactly when its subscriber becomes
\* Closed; Closed is final: no registration and no message follows; an unregister
\* the loop takes up for a subscriber that is not registered (never registered, or
\* removed before by an unregister or by backpressure) changes nothing.
C17_UnregisterIdempotentCloseOnce ==
    [][\A c \in Subscribers :
          /\ subscribers'[c].closes <= 1
          /\ (subscribers'[c].state = "closed") = (subscribers'[c].closes = 1)
          /\ subscribers[c].state = "closed" =>
                /\ subscribers'[c].state = "closed"
                /\ subscribers'[c].queue = subscribers[c].queue
                /\ subscribers'[c].closes = subscribers[c].closes
          /\ (/\ subscribers[c].asked = "unregister"
              /\ subscribers'[c].asked = "none"
              /\ subscribers[c].state # "registered") =>
                /\ subscribers' = [subscribers EXCEPT ![c].asked = "none"]
                /\ hub' = hub]_vars

\* a subscriber that was registered and removed, after the loop has taken up a
\* second unregister for it
C17_Witness ==
    \E c \in Subscribers :
        /\ subscribers[c].state = "closed"
        /\ subscribers[c].closes = 1
        /\ subscribers[c].unregisterAsks = 2
        /\ subscribers[c].asked = "none"

\* C18: the subscriber set and the input end of the queues change only in a step of
\* the hub's loop, never in a step of a goroutine, a handler or a connection; the
\* loop takes up an operation only when it is idle, one per step, so that no two
\* operations are ever in progress together, and while a fan-out is in progress
\* only the subscriber being attempted changes.
C18_OnlyTheLoopOneAtATime ==
    [][LET tookUp == {c \in Subscribers : /\ subscribers[c].asked # "none"
                                          /\ subscribers'[c].asked = "none"}
           touched == {c \in Subscribers :
                          \/ subscribers'[c].state # subscribers[c].state
                          \/ Len(subscribers'[c].queue) > Len(subscribers[c].queue)
                          \/ subscribers'[c].closes # subscribers[c].closes}
       IN /\ (tookUp # {} \/ Len(hub'.log) > Len(hub.log)) =>
                /\ hub.op = "idle"
                /\ Cardinality(tookUp) + (Len(hub'.log) - Len(hub.log)) = 1
          /\ touched # {} =>
                /\ execs' = execs /\ response' = response
                /\ Cardinality(touched) = 1
                /\ IF hub.op = "broadcast"
                   THEN touched = hub.todo \ hub'.todo
                   ELSE touched = tookUp
          /\ hub'.op = "broadcast" => hub'.todo # {}]_vars

\* a fan-out is in progress while a connection's register and an envelope of a
\* goroutine wait for the loop
C18_Witness ==
    /\ hub.op = "broadcast"
    /\ \E c \in Subscribers : subscribers[c].asked = "register"
    /\ \E e \in DOMAIN execs : hub.taken[e] < Len(execs[e].sent)

\* C19: when the loop takes up a broadcast while no subscriber is registered it is
\* idle again at once and nothing else has changed: no subscriber, no queue, no
\* goroutine; a subscriber that registers starts with an empty queue, and whatever
\* is enqueued later is the broadcast then in progress, never an earlier one.
C19_BroadcastToNobodyNoEffect ==
    [][/\ (/\ Len(hub'.log) > Len(hub.log)
           /\ \A c \in Subscribers : subscribers[c].state # "registered") =>
            /\ subscribers' = subscribers
            /\ execs' = execs
            /\ hub'.op = "idle" /\ hub'.todo = {}
       /\ \A c \in Subscribers :
            /\ (subscribers[c].state # "registered" /\ subscribers'[c].state = "registered")
                  => subscribers'[c].queue = <<>>
            /\ Len(subscribers'[c].queue) > Len(subscribers[c].queue) =>
                  /\ hub.op = "broadcast"
                  /\ subscribers'[c].queue[Len(subscribers'[c].queue)] = Len(hub.log)]_vars

\* the loop has taken up every envelope of both executions with nobody registered,
\* and a subscriber that registered afterwards holds none of them
C19_Witness ==
    \E c \in Subscribers :
        /\ Len(hub.log) = 5
        /\ hub.op = "idle"
        /\ subscribers[c].state = "registered" /\ subscribers[c].queue = <<>>
        /\ subscribers[c].seen = Len(hub.log)
        /\ \A d \in Subscribers \ {c} : ~subscribers[d].registerAsked

\* C20: the Steps, Status, Output and EndTime of an execution context are written
\* only by a step of its own goroutine (no response is written and no other
\* execution moves in that step), and after the goroutine has handed the terminal
\* envelope to the hub the context is never written again.
C20_ContextOwnedByItsTask ==
    [][\A e \in DOMAIN execs :
          /\ <<execs'[e].Steps, execs'[e].Status, execs'[e].Output, execs'[e].EndTimeSet>>
                # <<execs[e].Steps, execs[e].Status, execs[e].Output, execs[e].EndTimeSet>>
             => /\ execs'[e].pc # execs[e].pc \/ Len(execs'[e].sent) = Len(execs[e].sent) + 1
                /\ response' = response
                /\ Len(execs') = Len(execs)
                /\ \A f \in DOMAIN execs : f # e => execs'[f] = execs[f]
          /\ execs[e].pc = "done" => execs'[e] = execs[e]]_vars

\* one execution has ended, its context final, while another is still being written
C20_Witness ==
    \E e, f \in DOMAIN execs :
        /\ execs[e].pc = "done" /\ execs[e].EndTimeSet
        /\ execs[f].pc = "execute" /\ execs[f].Steps # <<>>
        /\ execs[f].Status = StatusRunning

-----------------------------------------------------------------------------
(* Results of the executors                                                 *)

\* Execute has returned to the goroutine of the execution
HasReturned(x) == x.pc \in {"returned", "completed", "built", "done"}

NonDecreasing(a) == \A i \in 1..(Len(a) - 1) : a[i] <= a[i + 1]

Occurrences(a, v) == Cardinality({i \in DOMAIN a : a[i] = v})

IsPermutation(a, b) ==
    /\ Len(a) = Len(b)
    /\ \A i \in DOMAIN a : Occurrences(a, a[i]) = Occurrences(b, a[i])

\* the array a run starts from, as its "initialize" step showed it when emitted
StartingArray(x) == x.sent[1].step.data["arr"]

\* the last step Execute emitted
LastStep(x) == x.Steps[Len(x.Steps)]

\* C22: a bubble sort run on a generated array of valid size or on a supplied []int
\* returns without error, its last step has action "complete", and the array it
\* returns is non-decreasing and a permutation of the array it started from.
C22_BubbleSortCompleteSorted ==
    \A e \in DOMAIN execs :
        (/\ execs[e].AlgorithmID = "bubble_sort"
         /\ execs[e].Input.kind \in {"nil", "ints"}
         /\ HasReturned(execs[e]))
        => /\ execs[e].err = NilErr
           /\ LastStep(execs[e]).Action = "complete"
           /\ execs[e].output.kind = "array"
           /\ NonDecreasing(execs[e].output.array)
           /\ IsPermutation(execs[e].output.array, StartingArray(execs[e]))

\* a descending []int came back ascending, after more than one pass
C22_Witness ==
    \E e \in DOMAIN execs :
        /\ execs[e].AlgorithmID = "bubble_sort"
        /\ execs[e].Input = IntsInput(<<2, 1, 0>>)
        /\ HasReturned(execs[e])
        /\ StartingArray(execs[e]) = <<2, 1, 0>>
        /\ execs[e].output.array = <<0, 1, 2>>

\* C23: binary search searches the supplied (or generated) array in ascending order;
\* when the target does not occur in it the result is found false, index -1, value
\* nil and the last step is "not_found"; when it occurs the result is found true
\* with an index that holds the target and value equal to the target.
C23_BinarySearchMembership ==
    \A e \in DOMAIN execs :
        (/\ execs[e].AlgorithmID = "binary_search"
         /\ execs[e].Input.kind \in {"nil", "ints"}
         /\ HasReturned(execs[e]))
        => /\ execs[e].err = NilErr
           /\ execs[e].output.kind = "search"
           /\ NonDecreasing(StartingArray(execs[e]))
           /\ execs[e].Input.kind = "ints"
                 => IsPermutation(StartingArray(execs[e]), execs[e].Input.arr)
           /\ IF \E i \in DOMAIN StartingArray(execs[e]) :
                    StartingArray(execs[e])[i] = IntParam(execs[e].Parameters, "target", 5)
              THEN /\ execs[e].output.found
                   /\ InRange(StartingArray(execs[e]), execs[e].output.index)
                   /\ At(StartingArray(execs[e]), execs[e].output.index)
                         = IntParam(execs[e].Parameters, "target", 5)
                   /\ execs[e].output.value
                         = IntVal(IntParam(execs[e].Parameters, "target", 5))
              ELSE /\ ~execs[e].output.found
                   /\ execs[e].output.index = -1
                   /\ execs[e].output.value = NilVal
                   /\ LastStep(execs[e]).Action = "not_found"

\* a target that occurs twice in an unsorted []int was found where the sorted array
\* holds it
C23_Witness ==
    \E e \in DOMAIN execs :
        /\ execs[e].AlgorithmID = "binary_search"
        /\ execs[e].Input = IntsInput(<<2, 0, 2>>)
        /\ Get(execs[e].Parameters, "target") = IntVal(2)
        /\ HasReturned(execs[e])
        /\ execs[e].output.found
        /\ StartingArray(execs[e]) = <<0, 2, 2>>
        /\ execs[e].output.index \in {1, 2}

\* the ids registerAlgorithms registers
RegisteredIds ==
    {"bubble_sort", "merge_sort", "quick_sort", "heap_sort", "counting_sort",
     "linear_search", "binary_search", "dfs", "bfs", "hash_lookup"}

\* the ids of the descriptors of a list, as a set, each occurring once in the list
EachOnce(algorithms, ids) ==
    /\ Len(algorithms) = Cardinality(ids)
    /\ \A id \in ids : \E k \in DOMAIN algorithms : algorithms[k].ID = id

\* C24: GetAlgorithm finds exactly the ten registered ids, each with the executor
\* whose metadata carries that id (bubble_sort: category "sorting", parameters not
\* empty); GetAllAlgorithms returns one descriptor per registered id;
\* GetAlgorithmsByCategory(c) returns exactly the descriptors of category c.
C24_RegistryLookupExact ==
    /\ response.op = "GetAlgorithm" =>
          /\ response.found <=> response.arg \in RegisteredIds
          /\ response.found => response.algorithm.ID = response.arg
          /\ response.arg = "bubble_sort" =>
                /\ response.algorithm.Category = "sorting"
                /\ response.algorithm.Parameters # <<>>
    /\ response.op = "GetAllAlgorithms" => EachOnce(response.algorithms, RegisteredIds)
    /\ response.op = "GetAlgorithmsByCategory" =>
          /\ \A k \in DOMAIN response.algorithms :
                response.algorithms[k].Category = response.arg
          /\ EachOnce(response.algorithms,
                      {id \in RegisteredIds :
                          GetAlgorithm(id).algorithm.Category = response.arg})

\* the searching executors were listed after bubble_sort was looked up
C24_Witness ==
    /\ response.seq = 2
    /\ response.op = "GetAlgorithmsByCategory"
    /\ response.arg = "searching"
    /\ Len(response.algorithms) = 5
    /\ response.algorithms[1].ID = "dfs"

EmittedData(x, i) == x.sent[i].step.data

\* C26: merge sort, quick sort (pivot first, last, middle), heap sort and counting
\* sort, run on a non-empty []int (of non-negative values) or on a generated array of
\* valid size, return, without error, a non-decreasing permutation of the array they
\* started from; their last step has action "complete" and shows the returned array.
C26_CopySortsCompleteSorted ==
    \A e \in DOMAIN execs :
        (/\ execs[e].AlgorithmID \in {"merge_sort", "quick_sort", "heap_sort",
                                      "counting_sort"}
         /\ \/ execs[e].Input.kind = "nil"
            \/ execs[e].Input.kind = "ints" /\ execs[e].Input.arr # <<>>)
        => /\ execs[e].pc # "panicked"
           /\ HasReturned(execs[e]) =>
                /\ execs[e].err = NilErr
                /\ execs[e].output.kind = "array"
                /\ execs[e].Input.kind = "ints"
                      => StartingArray(execs[e]) = execs[e].Input.arr
                /\ NonDecreasing(execs[e].output.array)
                /\ IsPermutation(execs[e].output.array, StartingArray(execs[e]))
                /\ LastStep(execs[e]).Action = "complete"
                /\ LastStep(execs[e]).refs = {execs[e].output.buf}
                /\ EmittedData(execs[e], Len(execs[e].Steps))[execs[e].output.buf]
                      = execs[e].output.array

\* C27: merge sort, quick sort and heap sort sort a copy: from the first step to the
\* return of Execute and after it, the array they were given (supplied or generated)
\* holds what it held at the call, and the "initialize" step, as emitted and as
\* recorded, shows that array.
C27_SortsLeaveInputUnchanged ==
    \A e \in DOMAIN execs :
        (/\ execs[e].AlgorithmID \in {"merge_sort", "quick_sort", "heap_sort"}
         /\ execs[e].Input.kind \in {"nil", "ints"}
         /\ execs[e].Steps # <<>>)
        => /\ execs[e].Steps[1].Action = "initialize"
           /\ execs[e].Steps[1].refs = {"arr"}
           /\ execs[e].heap["arr"] = StartingArray(execs[e])
           /\ execs[e].Input.kind = "ints" =>
                /\ StartingArray(execs[e]) = execs[e].Input.arr
                /\ execs[e].heap["arr"] = execs[e].Input.arr

\* merge sort returned the sorted copy of a descending []int, which is still descending
C27_Witness ==
    \E e \in DOMAIN execs :
        /\ execs[e].AlgorithmID = "merge_sort"
        /\ execs[e].Input = IntsInput(<<2, 1, 0>>)
        /\ HasReturned(execs[e])
        /\ execs[e].output.array = <<0, 1, 2>>
        /\ execs[e].heap["sortedArr"] = <<0, 1, 2>>
        /\ execs[e].heap["arr"] = <<2, 1, 0>>

\* C28: DFS and BFS on a graph of 3..20 nodes, from a start node to a target node
\* both inside it, never panic and emit at most two steps per node besides the first
\* and the last; the path they return holds no node twice, holds only nodes marked
\* visited, starts with the start node and ends with the target, found being true
\* and the last step "found".
C28_TraversalsVisitOnceAndFind ==
    \A e \in DOMAIN execs :
        (/\ execs[e].AlgorithmID \in {"dfs", "bfs"}
         /\ IntParam(execs[e].Parameters, "graph_size", 6) \in 3..20
         /\ IntParam(execs[e].Parameters, "start_node", 0)
               \in 0..(IntParam(execs[e].Parameters, "graph_size", 6) - 1)
         /\ IntParam(execs[e].Parameters, "target_node", 5)
               \in 0..(IntParam(execs[e].Parameters, "graph_size", 6) - 1))
        => /\ execs[e].pc # "panicked"
           /\ Len(execs[e].Steps) <= 2 * IntParam(execs[e].Parameters, "graph_size", 6) + 2
           /\ HasReturned(execs[e]) =>
                /\ execs[e].err = NilErr
                /\ execs[e].output.kind = "graph"
                /\ execs[e].output.found
                /\ LastStep(execs[e]).Action = "found"
                /\ \A i, j \in DOMAIN execs[e].output.path :
                      i # j => execs[e].output.path[i] # execs[e].output.path[j]
                /\ Len(execs[e].heap["visited"])
                      = IntParam(execs[e].Parameters, "graph_size", 6)
                /\ \A i \in DOMAIN execs[e].output.path :
                      /\ InRange(execs[e].heap["visited"], execs[e].output.path[i])
                      /\ At(execs[e].heap["visited"], execs[e].output.path[i])
                /\ execs[e].output.path # <<>>
                /\ execs[e].output.path[1] = IntParam(execs[e].Parameters, "start_node", 0)
                /\ execs[e].output.path[Len(execs[e].output.path)]
                      = IntParam(execs[e].Parameters, "target_node", 5)

\* a depth-first traversal from the last node of a graph back to its first node
C28_Witness ==
    \E e \in DOMAIN execs :
        /\ execs[e].AlgorithmID = "dfs"
        /\ Get(execs[e].Parameters, "graph_size") = IntVal(4)
        /\ Get(execs[e].Parameters, "start_node") = IntVal(3)
        /\ Get(execs[e].Parameters, "target_node") = IntVal(0)
        /\ HasReturned(execs[e])
        /\ execs[e].output.found
        /\ Len(execs[e].output.path) > 2
        /\ execs[e].output.path[1] = 3
        /\ execs[e].output.path[Len(execs[e].output.path)] = 0

\* C29: a hash lookup in a table of 5..50 buckets finds key_i, for i up to the
\* smaller of the table size and ten, with value_i and with the hash of the bucket
\* in which generateHashTable stored that entry; for any other key it returns found
\* false and the nil value.
C29_HashLookupFindsInserted ==
    \A e \in DOMAIN execs :
        (/\ execs[e].AlgorithmID = "hash_lookup"
         /\ IntParam(execs[e].Parameters, "table_size", 10) \in 5..50
         /\ HasReturned(execs[e]))
        => \E size \in {IntParam(execs[e].Parameters, "table_size", 10)} :
           \E key \in {StringParam(execs[e].Parameters, "key", "key5")} :
           \E hashTable \in {generateHashTable(size)} :
              /\ execs[e].err = NilErr
              /\ execs[e].output.kind = "hash"
              /\ execs[e].output.key = key
              /\ IF \E i \in 1..10 : i <= size /\ SampleKeys[i] = key
                 THEN /\ execs[e].output.found
                      /\ LastStep(execs[e]).Action = "found"
                      /\ execs[e].output.hash \in DOMAIN hashTable
                      /\ \E i \in 1..10 :
                            /\ i <= size
                            /\ SampleKeys[i] = key
                            /\ execs[e].output.value = StringVal(SampleValues[i])
                            /\ \E k \in DOMAIN hashTable[execs[e].output.hash] :
                                  hashTable[execs[e].output.hash][k]
                                      = [Key |-> key, Value |-> SampleValues[i]]
                 ELSE /\ ~execs[e].output.found
                      /\ execs[e].output.value = NilVal
                      /\ LastStep(execs[e]).Action = "not_found"

\* key10 was found behind other entries of its bucket, in a table of ten buckets
C29_Witness ==
    \E e \in DOMAIN execs :
        /\ execs[e].AlgorithmID = "hash_lookup"
        /\ Get(execs[e].Parameters, "table_size") = IntVal(10)
        /\ Get(execs[e].Parameters, "key") = StringVal("key10")
        /\ HasReturned(execs[e])
        /\ execs[e].output.found
        /\ execs[e].output.value = StringVal("value10")
        /\ execs[e].output.collisions > 0

\* the steps of an execution that have the action
StepsWith(x, action) == {i \in DOMAIN x.Steps : x.Steps[i].Action = action}

====
